---------------------------- MODULE Spec2Model ----------------------------
(***************************************************************************)
(* A model of @stagetimerio/google-secrets: the preload Supervisor         *)
(* (load.ts, loadSecretsSync), the Fetcher child (loader-child.ts) and the *)
(* Secret Resolver (SecretManager.loadSecrets and its helpers).            *)
(*                                                                         *)
(* Strings are TLC strings; an environment store is a function from the    *)
(* set keys to their values, and a key is unset when it is outside the     *)
(* function's domain.  A JavaScript object is an ordered sequence of       *)
(* <<key, value>> pairs with pairwise distinct keys.  The child's standard *)
(* output is a sequence of lexical pieces (marker, newline, JSON tokens).  *)
(***************************************************************************)
EXTENDS Integers, Sequences, FiniteSets, TLC

VARIABLES
    store,   \* store[p]: process.env of process p ("host" or "child")
    sup,     \* the Supervisor: one evaluation of load.ts in the host
    child,   \* the Fetcher child process as the operating system sees it
    run,     \* run[r]: one call of SecretManager.loadSecrets
    call,    \* one call of the programmatic loadSecrets of index.ts in the host
    probe    \* one application of the Secret Resolver's name resolution

vars == <<store, sup, child, run, call, probe>>

-----------------------------------------------------------------------------
(* Bounds of the model *)

\* longest secret-name list that is configured, read from a file or listed
MaxKeys == 2
\* how many times load.ts is evaluated in one host process (CJS and ESM copy)
\* the depth of the deepest directory a search for the discovery file starts in
MaxDepth == 12
MaxInvocations == 2

-----------------------------------------------------------------------------
(* Names *)

UNDEF == "<undefined>"
PROJECT_KEY == "GOOGLE_PROJECT_ID"
GUARD_KEY == "_GOOGLE_SECRETS_LOADED"
KEYS_VAR == "GOOGLE_SECRETS_KEYS"
KEYS_FILE_VAR == "GOOGLE_SECRETS_KEYS_FILE"
OVERRIDE_VAR == "GOOGLE_SECRETS_OVERRIDE_EXISTING"
DEBUG_VAR == "GOOGLE_SECRETS_DEBUG"
TIMEOUT_VAR == "GOOGLE_SECRETS_TIMEOUT"
AUTO_DISCOVER_VAR == "GOOGLE_SECRETS_AUTO_DISCOVER"
PREFIX_VAR == "GOOGLE_SECRETS_PREFIX"

Procs == {"host", "child"}
\* the calls of SecretManager.loadSecrets: the one of the Fetcher child, and
\* in the host the one index.ts wraps in withTimeout and the one it awaits
\* after it
Runs == {"child", "timed", "plain"}
ProcOf(r) == IF r = "child" THEN "child" ELSE "host"

-----------------------------------------------------------------------------
(* The environment store: process.env *)

EmptyEnv == [k \in {} |-> ""]
Has(env, k) == k \in DOMAIN env
Get(env, k) == IF Has(env, k) THEN env[k] ELSE UNDEF
\* JavaScript truthiness of process.env[k]: set and not the empty string
Truthy(env, k) == Has(env, k) /\ env[k] # ""
SetKey(env, k, v) == [x \in DOMAIN env \cup {k} |-> IF x = k THEN v ELSE env[x]]

-----------------------------------------------------------------------------
(* JavaScript objects as ordered key/value sequences *)

ObjKeys(obj) == {obj[i][1] : i \in 1..Len(obj)}
ObjHas(obj, k) == k \in ObjKeys(obj)
ObjGet(obj, k) == obj[CHOOSE i \in 1..Len(obj) : obj[i][1] = k][2]
\* obj[k] = v: an existing key keeps its place, a new key is appended
ObjSet(obj, k, v) ==
    IF ObjHas(obj, k)
    THEN [i \in 1..Len(obj) |-> IF obj[i][1] = k THEN <<k, v>> ELSE obj[i]]
    ELSE Append(obj, <<k, v>>)

-----------------------------------------------------------------------------
(* Configuration: config.ts *)

\* the secret names of the model, and the name lists a source can yield
Names == {"A", "B"}
RECURSIVE SeqsUpTo(_, _)
SeqsUpTo(S, n) ==
    IF n = 0 THEN {<<>>}
    ELSE LET shorter == SeqsUpTo(S, n - 1)
         IN shorter \cup {Append(l, x) : l \in {m \in shorter : Len(m) = n - 1}, x \in S}
\* lists start with "A": a list starting with "B" is a renaming of one of these
KeyLists == {l \in SeqsUpTo(Names, MaxKeys) : l # <<>> /\ l[1] = "A"}

\* Array.prototype.join(','): the text of a name list in GOOGLE_SECRETS_KEYS
RECURSIVE JoinComma(_)
JoinComma(l) ==
    IF l = <<>> THEN ""
    ELSE IF Len(l) = 1 THEN l[1]
    ELSE l[1] \o "," \o JoinComma(Tail(l))

\* raw texts of GOOGLE_SECRETS_KEYS with blanks and empty items
MessyKeys == (" A , ,B" :> <<"A", "B">>) @@ ("," :> <<>>) @@ (" , " :> <<>>)

\* s.split(',').map(key => key.trim()).filter(Boolean)
SplitTrimFilter(s) ==
    IF s \in DOMAIN MessyKeys THEN MessyKeys[s]
    ELSE CHOOSE l \in SeqsUpTo(Names, MaxKeys + 1) : JoinComma(l) = s

\* String.prototype.toLowerCase on the flag texts of the model
ToLowerCase(s) ==
    CASE s \in {"TRUE", "True"} -> "true"
      [] s \in {"FALSE", "False"} -> "false"
      [] OTHER -> s

\* parseInt(s, 10) on the timeout texts of the model
ParseInt(s) ==
    CASE s = "0" -> [nan |-> FALSE, n |-> 0]
      [] s = "250" -> [nan |-> FALSE, n |-> 250]
      [] s = "250ms" -> [nan |-> FALSE, n |-> 250]
      [] OTHER -> [nan |-> TRUE, n |-> 0]

DefaultTimeout == 5000
SpawnDefaultTimeout == 30000

NoKeys == [def |-> FALSE, list |-> <<>>]
SomeKeys(l) == [def |-> TRUE, list |-> l]

defaultConfig ==
    [secretKeys |-> NoKeys,
     secretKeysFile |-> UNDEF,
     overrideExisting |-> FALSE,
     debug |-> FALSE,
     timeout |-> DefaultTimeout,
     autoDiscoverConfig |-> TRUE,
     prefix |-> UNDEF]

\* a slip: only the text "true" keeps the discovery on
getConfigFromEnvAutoStrict(env) ==
    [secretKeys |->
        IF Truthy(env, KEYS_VAR) THEN SomeKeys(SplitTrimFilter(env[KEYS_VAR]))
        ELSE defaultConfig.secretKeys,
     secretKeysFile |-> Get(env, KEYS_FILE_VAR),
     overrideExisting |->
        IF Has(env, OVERRIDE_VAR) THEN ToLowerCase(env[OVERRIDE_VAR]) = "true"
        ELSE defaultConfig.overrideExisting,
     debug |->
        IF Has(env, DEBUG_VAR) THEN ToLowerCase(env[DEBUG_VAR]) = "true"
        ELSE defaultConfig.debug,
     timeout |->
        IF Truthy(env, TIMEOUT_VAR) /\ ~ParseInt(env[TIMEOUT_VAR]).nan
        THEN ParseInt(env[TIMEOUT_VAR]).n
        ELSE defaultConfig.timeout,
     autoDiscoverConfig |->
        IF Has(env, AUTO_DISCOVER_VAR) THEN ToLowerCase(env[AUTO_DISCOVER_VAR]) = "true"
        ELSE defaultConfig.autoDiscoverConfig,
     prefix |-> Get(env, PREFIX_VAR)]

getConfigFromEnv(env) ==
    [secretKeys |->
        IF Truthy(env, KEYS_VAR) THEN SomeKeys(SplitTrimFilter(env[KEYS_VAR]))
        ELSE defaultConfig.secretKeys,
     secretKeysFile |-> Get(env, KEYS_FILE_VAR),
     overrideExisting |->
        IF Has(env, OVERRIDE_VAR) THEN ToLowerCase(env[OVERRIDE_VAR]) = "true"
        ELSE defaultConfig.overrideExisting,
     debug |->
        IF Has(env, DEBUG_VAR) THEN ToLowerCase(env[DEBUG_VAR]) = "true"
        ELSE defaultConfig.debug,
     timeout |->
        IF Truthy(env, TIMEOUT_VAR) /\ ~ParseInt(env[TIMEOUT_VAR]).nan
        THEN ParseInt(env[TIMEOUT_VAR]).n
        ELSE defaultConfig.timeout,
     autoDiscoverConfig |->
        IF Has(env, AUTO_DISCOVER_VAR) THEN ToLowerCase(env[AUTO_DISCOVER_VAR]) # "false"
        ELSE defaultConfig.autoDiscoverConfig,
     prefix |-> Get(env, PREFIX_VAR)]

-----------------------------------------------------------------------------
(* The wire format: pieces of the child's standard output, and JSON *)

Piece(t, v) == [t |-> t, v |-> v]
\* the line console.log(JSON_OUTPUT_MARKER) writes is MARKER followed by NL
MARKER == Piece("marker", "")
NL == Piece("nl", "")
LBRACE == Piece("lbrace", "")
RBRACE == Piece("rbrace", "")
LBRACK == Piece("lbrack", "")
RBRACK == Piece("rbrack", "")
COLON == Piece("colon", "")
COMMA == Piece("comma", "")
NULL == Piece("null", "")
Str(s) == Piece("str", s)
Num(s) == Piece("num", s)
LogLine(s) == Piece("log", s)
\* a lexeme cut short: the rest of a truncated output's last token
PARTIAL == Piece("partial", "")

\* JavaScript values: strings, numbers, null, arrays and objects.  An array
\* holds its elements as <<index, value>> pairs, as Object.entries lists them.
JString(s) == [type |-> "string", s |-> s, items |-> <<>>]
JNumber(s) == [type |-> "number", s |-> s, items |-> <<>>]
JNull == [type |-> "null", s |-> "null", items |-> <<>>]
JArray(items) == [type |-> "array", s |-> "", items |-> items]
JObject(items) == [type |-> "object", s |-> "", items |-> items]

\* JSON.stringify of a mapping from strings to strings
RECURSIVE StringifyMembers(_)
StringifyMembers(obj) ==
    IF obj = <<>> THEN <<>>
    ELSE <<Str(obj[1][1]), COLON, Str(obj[1][2])>>
         \o (IF Len(obj) = 1 THEN <<>> ELSE <<COMMA>> \o StringifyMembers(Tail(obj)))
JSONStringify(obj) == <<LBRACE>> \o StringifyMembers(obj) \o <<RBRACE>>

ParseFail == [ok |-> FALSE, val |-> JNull, rest |-> <<>>]
ParseOk(v, rest) == [ok |-> TRUE, val |-> v, rest |-> rest]

\* JSON.parse as a recursive-descent parser over the tokens
RECURSIVE ParseValue(_), ParseMembers(_, _), ParseElements(_, _)
ParseValue(toks) ==
    IF toks = <<>> THEN ParseFail
    ELSE LET h == Head(toks)
             rest == Tail(toks)
         IN CASE h.t = "str" -> ParseOk(JString(h.v), rest)
              [] h.t = "num" -> ParseOk(JNumber(h.v), rest)
              [] h.t = "null" -> ParseOk(JNull, rest)
              [] h.t = "lbrace" ->
                   IF rest # <<>> /\ Head(rest).t = "rbrace"
                   THEN ParseOk(JObject(<<>>), Tail(rest))
                   ELSE ParseMembers(rest, <<>>)
              [] h.t = "lbrack" ->
                   IF rest # <<>> /\ Head(rest).t = "rbrack"
                   THEN ParseOk(JArray(<<>>), Tail(rest))
                   ELSE ParseElements(rest, <<>>)
              [] OTHER -> ParseFail

\* after "{" or ",": a member, then "," and more members, or "}"
ParseMembers(toks, acc) ==
    IF Len(toks) < 3 \/ toks[1].t # "str" \/ toks[2].t # "colon" THEN ParseFail
    ELSE LET v == ParseValue(SubSeq(toks, 3, Len(toks)))
         IN IF ~v.ok \/ v.rest = <<>> THEN ParseFail
            ELSE LET obj == ObjSet(acc, toks[1].v, v.val)
                     sep == Head(v.rest)
                 IN CASE sep.t = "comma" -> ParseMembers(Tail(v.rest), obj)
                      [] sep.t = "rbrace" -> ParseOk(JObject(obj), Tail(v.rest))
                      [] OTHER -> ParseFail

\* after "[" or ",": an element, then "," and more elements, or "]"
ParseElements(toks, acc) ==
    LET v == ParseValue(toks)
    IN IF ~v.ok \/ v.rest = <<>> THEN ParseFail
       ELSE LET arr == Append(acc, <<ToString(Len(acc)), v.val>>)
                sep == Head(v.rest)
            IN CASE sep.t = "comma" -> ParseElements(Tail(v.rest), arr)
                 [] sep.t = "rbrack" -> ParseOk(JArray(arr), Tail(v.rest))
                 [] OTHER -> ParseFail

\* white space between JSON tokens is insignificant
DropWhitespace(toks) == SelectSeq(toks, LAMBDA p : p.t # "nl")
\* JSON.parse(text): ok is FALSE where JSON.parse throws a SyntaxError
JSONParse(toks) ==
    LET v == ParseValue(DropWhitespace(toks))
    IN IF v.ok /\ v.rest = <<>> THEN v ELSE ParseFail

\* String.prototype.trim: newlines at either end are removed
RECURSIVE TrimStart(_)
TrimStart(toks) ==
    IF toks # <<>> /\ Head(toks).t = "nl" THEN TrimStart(Tail(toks)) ELSE toks
RECURSIVE TrimEnd(_)
TrimEnd(toks) ==
    IF toks # <<>> /\ toks[Len(toks)].t = "nl"
    THEN TrimEnd(SubSeq(toks, 1, Len(toks) - 1)) ELSE toks
Trim(toks) == TrimEnd(TrimStart(toks))

\* stdout.split(JSON_OUTPUT_MARKER): the parts between the markers
RECURSIVE SplitMarker(_, _)
SplitMarker(toks, cur) ==
    IF toks = <<>> THEN <<cur>>
    ELSE IF Head(toks) = MARKER THEN <<cur>> \o SplitMarker(Tail(toks), <<>>)
    ELSE SplitMarker(Tail(toks), Append(cur, Head(toks)))
Split(toks) == SplitMarker(toks, <<>>)

\* Object.entries(v): throws a TypeError for null, is empty for a number
EntriesThrows(v) == v.type = "null"
ObjectEntries(v) ==
    CASE v.type \in {"object", "array"} -> v.items
      [] v.type = "string" -> [i \in 1..Len(v.s) |-> <<ToString(i - 1), JString(v.s)>>]
      [] OTHER -> <<>>

-----------------------------------------------------------------------------
(* Secret-name files: utils.ts *)

JBool(b) == [type |-> "boolean", s |-> IF b THEN "true" ELSE "false", items |-> <<>>]
\* a JavaScript array of strings
RECURSIVE JStrings(_, _)
JStrings(l, i) ==
    IF i > Len(l) THEN <<>>
    ELSE <<<<ToString(i - 1), JString(l[i])>>>> \o JStrings(l, i + 1)
JList(l) == JArray(JStrings(l, 1))
\* the strings of an array value
ListOf(v) == [i \in 1..Len(v.items) |-> v.items[i][2].s]

Absent == [def |-> FALSE, val |-> FALSE]
Present(b) == [def |-> TRUE, val |-> b]
NoFileData == [secrets |-> NoKeys, prefix |-> UNDEF, overrideExisting |-> Absent]

\* content.f of a parsed object, or JNull where the object has no field f
Field(content, f) == IF ObjHas(content.items, f) THEN ObjGet(content.items, f) ELSE JNull

\* a slip: only the bare array is taken as a list of names
parseSecretsJsonArrayOnly(content) ==
    IF content.type = "array"
    THEN [secrets |-> SomeKeys(ListOf(content)), prefix |-> UNDEF, overrideExisting |-> Absent]
    ELSE NoFileData

parseSecretsJson(content) ==
    IF content.type = "array"
    THEN [secrets |-> SomeKeys(ListOf(content)), prefix |-> UNDEF, overrideExisting |-> Absent]
    ELSE IF content.type = "object"
    THEN [secrets |->
             IF Field(content, "secrets").type = "array"
             THEN SomeKeys(ListOf(Field(content, "secrets"))) ELSE NoKeys,
          prefix |->
             IF Field(content, "prefix").type = "string"
             THEN Field(content, "prefix").s ELSE UNDEF,
          overrideExisting |->
             IF Field(content, "overrideExisting").type = "boolean"
             THEN Present(Field(content, "overrideExisting").s = "true") ELSE Absent]
    ELSE NoFileData

\* A file as readFile and JSON.parse see it: unreadable, not JSON, or a value
File(state, value) == [state |-> state, value |-> value]
Unreadable == File("unreadable", JNull)
BadJson == File("badjson", JNull)
Json(v) == File("json", v)

\* readSecretKeysFromFile: ok is FALSE where it throws
readSecretKeysFromFile(file) ==
    IF file.state # "json" THEN [ok |-> FALSE, data |-> NoFileData]
    ELSE LET result == parseSecretsJson(file.value)
         IN IF ~result.secrets.def THEN [ok |-> FALSE, data |-> NoFileData]
            ELSE [ok |-> TRUE, data |-> result]

\* parseConfigFile never throws
parseConfigFile(file) ==
    IF file.state # "json" THEN NoFileData
    ELSE parseSecretsJson(file.value)

\* the files of the model: both accepted shapes of every name list, and bad ones
FilePrefix == "F_"
FileShapes(l) ==
    {Json(JList(l)),
     Json(JObject(<<<<"secrets", JList(l)>>>>))}
\* a file that also sets the prefix and overrideExisting
FullFile ==
    Json(JObject(<<<<"secrets", JList(<<"A">>)>>, <<"prefix", JString(FilePrefix)>>,
                   <<"overrideExisting", JBool(TRUE)>>>>))
BadFiles ==
    {Unreadable, BadJson, Json(JNumber("7")),
     Json(JObject(<<<<"prefix", JString(FilePrefix)>>>>))}
Files == UNION {FileShapes(l) : l \in KeyLists \cup {<<>>}} \cup {FullFile} \cup BadFiles
NoFile == File("none", JNull)

-----------------------------------------------------------------------------
(* The Secret Resolver: SecretManager *)

IsSet(s) == s # UNDEF /\ s # ""

\* updateConfigFromFile(fileData, source); env is process.env
updateConfigFromFile(config, env, fileData) ==
    [config EXCEPT
        !.prefix =
            IF IsSet(fileData.prefix) /\ ~IsSet(config.prefix)
            THEN fileData.prefix ELSE @,
        !.overrideExisting =
            IF fileData.overrideExisting.def /\ ~Truthy(env, OVERRIDE_VAR) /\ @ = FALSE
            THEN fileData.overrideExisting.val ELSE @]

\* listAllSecrets: what client.listSecrets answers, ok FALSE where it rejects
Listing(ok, names) == [ok |-> ok, names |-> names]
Listings == {Listing(TRUE, l) : l \in KeyLists \cup {<<>>}} \cup {Listing(FALSE, <<>>)}
NoListing == Listing(FALSE, <<>>)

\* a slip: the configured name list is never looked at
HasKeysNever(config) == FALSE

\* the inputs getSecretKeys can come to ask for under a configuration
HasKeys(config) == config.secretKeys.def /\ Len(config.secretKeys.list) > 0
FilesRead(config) ==
    IF ~HasKeys(config) /\ IsSet(config.secretKeysFile) THEN Files ELSE {NoFile}
FilesFound(config) ==
    IF ~HasKeys(config) /\ ~IsSet(config.secretKeysFile) /\ config.autoDiscoverConfig
    THEN Files \cup {NoFile} ELSE {NoFile}
ListingsAsked(config) ==
    IF ~HasKeys(config) /\ ~IsSet(config.secretKeysFile) THEN Listings ELSE {NoListing}

KeysResult(ok, keys, config, consulted) ==
    [ok |-> ok, keys |-> keys, config |-> config, consulted |-> consulted]

\* getSecretKeys: explicitFile is the file at config.secretKeysFile, found is
\* what findConfigFile returns (NoFile when it finds none), listing is the
\* remote answer to listSecrets
getSecretKeys(config, env, explicitFile, found, listing) ==
    IF HasKeys(config)
    THEN KeysResult(TRUE, config.secretKeys.list, config, {})
    ELSE IF IsSet(config.secretKeysFile)
    THEN LET r == readSecretKeysFromFile(explicitFile)
         IN IF ~r.ok THEN KeysResult(FALSE, <<>>, config, {"file"})
            ELSE KeysResult(TRUE, r.data.secrets.list,
                            updateConfigFromFile(config, env, r.data), {"file"})
    ELSE LET configData ==
                 IF config.autoDiscoverConfig /\ found # NoFile
                 THEN parseConfigFile(found) ELSE NoFileData
         IN IF configData.secrets.def /\ Len(configData.secrets.list) > 0
            THEN KeysResult(TRUE, configData.secrets.list,
                            updateConfigFromFile(config, env, configData), {"discover"})
            ELSE KeysResult(listing.ok, listing.names, config,
                            (IF config.autoDiscoverConfig THEN {"discover"} ELSE {})
                                \cup {"list"})

\* a slip: the prefix is not applied
EnvVarNameBare(config, secretKey) == secretKey

\* the environment variable a secret is stored under
EnvVarName(config, secretKey) ==
    IF IsSet(config.prefix) THEN config.prefix \o secretKey ELSE secretKey

\* the remote store: the project id and the latest value of a secret
ProjectIds == {"proj", UNDEF}
SecretValue(secretKey) == "new" \o secretKey

\* a slip: a fetched value is always written
MayWriteAlways(overrideExisting, env, key) == TRUE

\* a slip: overrideExisting is not looked at, only unset keys are written
MayWriteUnsetOnly(overrideExisting, env, key) == ~Has(env, key)

\* the precedence rule: write if overrideExisting or the key is unset
MayWrite(overrideExisting, env, key) == overrideExisting \/ ~Has(env, key)

-----------------------------------------------------------------------------
(* The Supervisor's handling of the spawnSync result: load.ts *)

\* what spawnSync returns: error is "none", "ENOENT" (the launch failed) or
\* "ETIMEDOUT" (the wait timed out); status is the exit code, "null" without one
Result(error, status, stdout) == [error |-> error, status |-> status, stdout |-> stdout]
NoResult == Result("none", "null", <<>>)

\* a slip: the guard is never looked at
AlreadyLoadedNever(env) == FALSE

\* the guard against double loading
AlreadyLoaded(env) == Truthy(env, GUARD_KEY)

\* a slip: the fallback is passed whatever the configuration says
SpawnTimeoutFallback(config) == SpawnDefaultTimeout

\* timeout: config.timeout || 30000
SpawnTimeout(config) == IF config.timeout # 0 THEN config.timeout ELSE SpawnDefaultTimeout

\* a slip: only result.error is looked at, the exit status is not
ChildFailureIgnoresStatus(result) ==
    IF result.error # "none"
    THEN (IF result.error = "ETIMEDOUT" THEN "ChildTimeout" ELSE "ChildError")
    ELSE "none"

\* a slip: a timed-out wait is not taken as a failure
ChildFailureIgnoresTimeout(result) ==
    IF result.error = "ETIMEDOUT" THEN "none"
    ELSE IF result.error # "none" THEN "ChildError"
    ELSE IF result.status # "0" THEN "ChildError"
    ELSE "none"

\* the early returns on result.error and on result.status !== 0
ChildFailure(result) ==
    IF result.error # "none"
    THEN (IF result.error = "ETIMEDOUT" THEN "ChildTimeout" ELSE "ChildError")
    ELSE IF result.status # "0" THEN "ChildError"
    ELSE "none"

Thrown(what) == [threw |-> TRUE, error |-> what, secrets |-> JObject(<<>>)]
Parsed(v) == [threw |-> FALSE, error |-> "", secrets |-> v]

\* the split on the marker and the parse of the part after it
ParseOutput(stdout) ==
    LET stdoutParts == Split(stdout)
    IN IF Len(stdoutParts) < 2 THEN Thrown("Output marker not found")
       ELSE LET output == stdoutParts[2]
            IN IF output = <<>> THEN Parsed(JObject(<<>>))
               ELSE LET p == JSONParse(Trim(output))
                    IN IF ~p.ok THEN Thrown("SyntaxError")
                       ELSE IF EntriesThrows(p.val) THEN Thrown("TypeError")
                       ELSE Parsed(p.val)

\* a slip: the value's type is not looked at, every value is written as text
MergePairAnyType(config, env, key, value) ==
    IF MayWrite(config.overrideExisting, env, key)
    THEN SetKey(env, key, value.s)
    ELSE env

\* one round of the merge loop: the pair is written if its value is a string
\* and the precedence rule allows it
MergePair(config, env, key, value) ==
    IF value.type = "string" /\ MayWrite(config.overrideExisting, env, key)
    THEN SetKey(env, key, value.s)
    ELSE env

RECURSIVE MergeEntries(_, _, _)
MergeEntries(config, env, entries) ==
    IF entries = <<>> THEN env
    ELSE MergeEntries(config, MergePair(config, env, entries[1][1], entries[1][2]),
                      Tail(entries))

\* a slip: the guard is not set after the merge
MarkLoadedNot(env) == env

\* process.env._GOOGLE_SECRETS_LOADED = '1'
MarkLoaded(env) == SetKey(env, GUARD_KEY, "1")

Handled(env, outcome, secrets, logged, raised) ==
    [env |-> env, outcome |-> outcome, secrets |-> secrets, logged |-> logged,
     raised |-> raised]

\* a slip: the catch clause throws the error on to the host
CatchParseErrorRethrows(env, error) == Handled(env, "ParseError", <<>>, "error", TRUE)

\* a slip: the guard is set in the catch clause as well
CatchParseErrorMarks(env, error) ==
    Handled(SetKey(env, GUARD_KEY, "1"), "ParseError", <<>>, "error", FALSE)

\* the catch clause: the error is logged and the function returns
CatchParseError(env, error) == Handled(env, "ParseError", <<>>, "error", FALSE)

\* the try block: parse, then merge, then set the guard
TryMerge(config, env, stdout) ==
    LET p == ParseOutput(stdout)
    IN IF p.threw THEN CatchParseError(env, p.error)
       ELSE Handled(MarkLoaded(MergeEntries(config, env, ObjectEntries(p.secrets))),
                    "Success", ObjectEntries(p.secrets), "info", FALSE)

\* loadSecretsSync from the return of spawnSync to its end
HandleResult(config, env, result) ==
    IF ChildFailure(result) # "none"
    THEN Handled(env, ChildFailure(result), <<>>, "error", FALSE)
    ELSE TryMerge(config, env, result.stdout)

-----------------------------------------------------------------------------
(* State *)

IdleRun ==
    [pc |-> "idle", config |-> defaultConfig, projectId |-> UNDEF,
     secretKeys |-> <<>>, slot |-> <<>>, loaded |-> <<>>,
     afterFail |-> FALSE, consulted |-> {}, error |-> ""]

NoChild ==
    [state |-> "none", orphan |-> FALSE, stdout |-> <<>>, stderr |-> <<>>,
     status |-> "null"]

\* the programmatic call before it is made: elapsed tells that the time
\* config.timeout has passed since the run in flight was started
IdleCall ==
    [pc |-> "idle", options |-> [fields |-> {}, values |-> defaultConfig],
     config |-> defaultConfig, timer |-> "unset", elapsed |-> FALSE,
     result |-> <<>>, error |-> ""]

\* one application of the name resolution: the run and the store it starts
\* from, what the sources hold, and the run and the store it leaves
IdleProbe ==
    [pc |-> "idle", run |-> IdleRun, env |-> EmptyEnv,
     explicitFile |-> NoFile, found |-> NoFile, listing |-> NoListing,
     out |-> IdleRun, outEnv |-> EmptyEnv]

IdleSup ==
    [pc |-> "Idle", inv |-> 0, launches |-> 0, config |-> defaultConfig, wait |-> 0,
     entryEnv |-> EmptyEnv, result |-> NoResult, outcome |-> "none",
     secrets |-> <<>>, logged |-> "none", raised |-> FALSE]

\* the environments the host is started in
WithVar(env, k, v) == IF v = UNDEF THEN env ELSE SetKey(env, k, v)
HostEnv(keys, file, override, prefix, auto, preset, project, timeout) ==
    WithVar(WithVar(WithVar(WithVar(WithVar(WithVar(WithVar(WithVar(EmptyEnv,
        KEYS_VAR, keys), KEYS_FILE_VAR, file), OVERRIDE_VAR, override),
        PREFIX_VAR, prefix), AUTO_DISCOVER_VAR, auto),
        preset, IF preset = UNDEF THEN UNDEF ELSE "old"),
        PROJECT_KEY, project),
        TIMEOUT_VAR, timeout)

KeysTexts == {UNDEF} \cup {JoinComma(l) : l \in KeyLists}
FileTexts == {UNDEF, "secrets.json"}
OverrideTexts == {UNDEF, "true", "false"}
PrefixTexts == {UNDEF, "", "P_"}
AutoTexts == {UNDEF, "false"}
PresetKeys == {UNDEF, "A", "P_A", "F_A"}
ProjectTexts == {UNDEF, "oldproj"}
TimeoutTexts == {UNDEF, "0"}

\* The combinations that are told apart by some step: a file or the discovery
\* switch matters when no name list is set, an explicit "false" for
\* overrideExisting when a file could set it, a preset "P_A" under the prefix
\* "P_", a preset "F_A" when a file alone could set prefix and override, a preset project id is combined with the plain key names, and a
\* timeout of 0 with a host that sets nothing else
Distinguished(k, f, o, p, a, s, g, t) ==
    /\ a # UNDEF => k = UNDEF /\ f = UNDEF
    /\ (k # UNDEF /\ f # UNDEF) => o = UNDEF /\ p = UNDEF /\ s = UNDEF /\ g = UNDEF
    /\ o = "false" => k = UNDEF
    /\ s = "P_A" => p = "P_"
    /\ s = "F_A" => {k, o, p, g} = {UNDEF}
    /\ g # UNDEF => p = UNDEF /\ s = UNDEF
    /\ t # UNDEF => {k, f, o, p, a, s, g} = {UNDEF}

HostEnvs ==
    {HostEnv(c[1], c[2], c[3], c[4], c[5], c[6], c[7], c[8]) :
        c \in {d \in KeysTexts \X FileTexts \X OverrideTexts \X PrefixTexts
                        \X AutoTexts \X PresetKeys \X ProjectTexts \X TimeoutTexts :
                  Distinguished(d[1], d[2], d[3], d[4], d[5], d[6], d[7], d[8])}}

Init ==
    /\ \E env \in HostEnvs :
         store = [p \in Procs |-> IF p = "host" THEN env ELSE EmptyEnv]
    /\ sup = IdleSup
    /\ child = NoChild
    /\ run = [r \in Runs |-> IdleRun]
    /\ call = IdleCall
    /\ probe = IdleProbe

-----------------------------------------------------------------------------
(* SecretManager.loadSecrets, one action for each stretch between awaits *)

Env(r) == store[ProcOf(r)]
\* the process of run r is still there to run it
Alive(r) == IF r = "child" THEN child.state = "running" ELSE TRUE

StartedRun(config) == [IdleRun EXCEPT !.pc = "project", !.config = config]
Rejected(rn, error) == [rn EXCEPT !.pc = "rejected", !.error = error]

\* a slip: the load goes on without a project id
ProjectKnownUnchecked(rn, projectId) == [rn EXCEPT !.pc = "keys", !.projectId = projectId]

\* if (!projectId) throw new Error('Project ID is required')
ProjectKnown(rn, projectId) ==
    IF projectId = UNDEF THEN Rejected(rn, "Project ID is required")
    ELSE [rn EXCEPT !.pc = "keys", !.projectId = projectId]

\* await this.client.auth.getProjectId(), and the throw when there is none
ResolveProject(r) ==
    /\ run[r].pc = "project"
    /\ Alive(r)
    /\ \E projectId \in ProjectIds :
         run' = [run EXCEPT ![r] = ProjectKnown(@, projectId)]
    /\ UNCHANGED <<store, sup, child, call, probe>>

\* a slip: the project id is entered only when there are names to fetch
FetchingBare(rn, k) ==
    [rn EXCEPT !.pc = IF k.keys = <<>> THEN "returned" ELSE "fetching",
               !.config = k.config,
               !.consulted = k.consulted,
               !.secretKeys = k.keys,
               !.slot = [i \in 1..Len(k.keys) |-> "pending"],
               !.loaded = IF k.keys = <<>> THEN <<>> ELSE <<<<PROJECT_KEY, rn.projectId>>>>]

\* a slip: a load without names to fetch is taken as failed
FetchingSomething(rn, k) ==
    IF k.keys = <<>> THEN Rejected([rn EXCEPT !.consulted = k.consulted], "No secret keys")
    ELSE [rn EXCEPT !.pc = "fetching",
                    !.config = k.config,
                    !.consulted = k.consulted,
                    !.secretKeys = k.keys,
                    !.slot = [i \in 1..Len(k.keys) |-> "pending"],
                    !.loaded = <<<<PROJECT_KEY, rn.projectId>>>>]

\* the state of a run once its names are known: the project id is recorded
\* and every request is issued
Fetching(rn, k) ==
    [rn EXCEPT !.pc = IF k.keys = <<>> THEN "returned" ELSE "fetching",
               !.config = k.config,
               !.consulted = k.consulted,
               !.secretKeys = k.keys,
               !.slot = [i \in 1..Len(k.keys) |-> "pending"],
               !.loaded = <<<<PROJECT_KEY, rn.projectId>>>>]

\* a slip: a file that cannot be used is passed over and the listing asked
KeysResolvedLenient(rn, env, explicitFile, found, listing) ==
    LET k == getSecretKeys(rn.config, env, explicitFile, found, listing)
        l == KeysResult(listing.ok, listing.names, rn.config, k.consulted \cup {"list"})
    IN IF ~k.ok /\ listing.ok
       THEN [env |-> SetKey(env, PROJECT_KEY, rn.projectId), run |-> Fetching(rn, l)]
       ELSE IF ~k.ok
       THEN [env |-> env,
             run |-> Rejected([rn EXCEPT !.consulted = k.consulted],
                              "cannot resolve the secret names")]
       ELSE [env |-> SetKey(env, PROJECT_KEY, rn.projectId), run |-> Fetching(rn, k)]

\* a slip: only the first of the resolved names is requested
KeysResolvedFirstOnly(rn, env, explicitFile, found, listing) ==
    LET k == getSecretKeys(rn.config, env, explicitFile, found, listing)
    IN IF ~k.ok
       THEN [env |-> env,
             run |-> Rejected([rn EXCEPT !.consulted = k.consulted],
                              "cannot resolve the secret names")]
       ELSE [env |-> SetKey(env, PROJECT_KEY, rn.projectId),
             run |-> Fetching(rn, [k EXCEPT !.keys = IF @ = <<>> THEN @ ELSE <<@[1]>>])]

\* a slip: the discovered file is read with the reader of the explicit
\* file, which throws where the file is of no use
KeysResolvedDiscoveryThrows(rn, env, explicitFile, found, listing) ==
    LET k == getSecretKeys(rn.config, env, explicitFile, found, listing)
    IN IF \/ ~k.ok
          \/ /\ "discover" \in k.consulted
             /\ found # NoFile
             /\ ~readSecretKeysFromFile(found).ok
       THEN [env |-> env,
             run |-> Rejected([rn EXCEPT !.consulted = k.consulted \ {"list"}],
                              "cannot resolve the secret names")]
       ELSE [env |-> SetKey(env, PROJECT_KEY, rn.projectId), run |-> Fetching(rn, k)]

\* a slip: the project id is written before the names are resolved
KeysResolvedWritesFirst(rn, env, explicitFile, found, listing) ==
    LET k == getSecretKeys(rn.config, env, explicitFile, found, listing)
    IN IF ~k.ok
       THEN [env |-> SetKey(env, PROJECT_KEY, rn.projectId),
             run |-> Rejected([rn EXCEPT !.consulted = k.consulted],
                              "cannot resolve the secret names")]
       ELSE [env |-> SetKey(env, PROJECT_KEY, rn.projectId), run |-> Fetching(rn, k)]

\* the run and the store after await this.getSecretKeys(projectId) and the
\* statements up to Promise.all: the run is rejected where getSecretKeys
\* throws, else the project id is written and every request issued
KeysResolved(rn, env, explicitFile, found, listing) ==
    LET k == getSecretKeys(rn.config, env, explicitFile, found, listing)
    IN IF ~k.ok
       THEN [env |-> env,
             run |-> Rejected([rn EXCEPT !.consulted = k.consulted],
                              "cannot resolve the secret names")]
       ELSE [env |-> SetKey(env, PROJECT_KEY, rn.projectId), run |-> Fetching(rn, k)]

\* await this.getSecretKeys(projectId) and the statements up to Promise.all
ResolveKeys(r) ==
    /\ run[r].pc = "keys"
    /\ Alive(r)
    /\ \E explicitFile \in FilesRead(run[r].config),
          found \in FilesFound(run[r].config),
          listing \in ListingsAsked(run[r].config) :
         LET w == KeysResolved(run[r], Env(r), explicitFile, found, listing)
         IN /\ run' = [run EXCEPT ![r] = w.run]
            /\ store' = [store EXCEPT ![ProcOf(r)] = w.env]
    /\ UNCHANGED <<sup, child, call, probe>>

\* some request of the run has failed already
SomeFailed(rn) == \E j \in 1..Len(rn.slot) : rn.slot[j] = "failed"

\* the callback of one secret after a successful getSecret: the run and the
\* environment store it leaves
StoreSecret(rn, env, i) ==
    LET envVarName == EnvVarName(rn.config, rn.secretKeys[i])
        secretValue == SecretValue(rn.secretKeys[i])
    IN [env |-> IF MayWrite(rn.config.overrideExisting, env, envVarName)
                THEN SetKey(env, envVarName, secretValue) ELSE env,
        run |-> [rn EXCEPT !.slot[i] = "ok",
                           !.afterFail = @ \/ SomeFailed(rn),
                           !.loaded = ObjSet(@, envVarName, secretValue)]]

\* a slip: the variable of a secret that could not be fetched is deleted
SkipSecretUnsets(rn, env, i) ==
    LET envVarName == EnvVarName(rn.config, rn.secretKeys[i])
    IN [env |-> [k \in DOMAIN env \ {envVarName} |-> env[k]],
        run |-> [rn EXCEPT !.slot[i] = "failed"]]

\* a slip: the error of getSecret is not caught, the whole load rejects
SkipSecretFailFast(rn, env, i) ==
    [env |-> env, run |-> Rejected([rn EXCEPT !.slot[i] = "failed"], "Failed to load secret")]

\* the callback of one secret whose getSecret threw: the error is caught and
\* logged
SkipSecret(rn, env, i) ==
    [env |-> env, run |-> [rn EXCEPT !.slot[i] = "failed"]]

\* one request settles: accessSecretVersion answers or fails, and the
\* callback of the secret runs, whatever loadSecrets has come to by then
FetchSettles(r, i) ==
    /\ run[r].pc \in {"fetching", "returned"}
    /\ Alive(r)
    /\ run[r].slot[i] = "pending"
    /\ \E answered \in BOOLEAN :
         LET w == IF answered THEN StoreSecret(run[r], Env(r), i)
                  ELSE SkipSecret(run[r], Env(r), i)
         IN /\ run' = [run EXCEPT ![r] = w.run]
            /\ store' = [store EXCEPT ![ProcOf(r)] = w.env]
    /\ UNCHANGED <<sup, child, call, probe>>

\* a slip: Promise.race in the place of Promise.all
AllSettledFirst(rn) == \E i \in 1..Len(rn.slot) : rn.slot[i] # "pending"

\* Promise.all: every callback has finished
AllSettled(rn) == \A i \in 1..Len(rn.slot) : rn.slot[i] # "pending"

\* await Promise.all(loadPromises) and the return of loadedSecrets
ReturnLoaded(r) ==
    /\ run[r].pc = "fetching"
    /\ Alive(r)
    /\ AllSettled(run[r])
    /\ run' = [run EXCEPT ![r].pc = "returned"]
    /\ UNCHANGED <<store, sup, child, call, probe>>

-----------------------------------------------------------------------------
(* The Fetcher child: loader-child.ts *)

\* a slip: the marker line is left out
SecretsOutputNoMarker(secrets) == JSONStringify(secrets) \o <<NL>>

\* console.log(JSON_OUTPUT_MARKER); console.log(JSON.stringify(secrets))
SecretsOutput(secrets) == <<MARKER, NL>> \o JSONStringify(secrets) \o <<NL>>

\* loadSecrets resolved: the marker and the JSON are written
ChildWrites ==
    /\ child.state = "running"
    /\ run["child"].pc = "returned"
    /\ child' = [child EXCEPT !.state = "written",
                              !.stdout = @ \o SecretsOutput(run["child"].loaded)]
    /\ UNCHANGED <<store, sup, run, call, probe>>

\* process.exit(0)
ChildExits ==
    /\ child.state = "written"
    /\ child' = [child EXCEPT !.state = "exited", !.status = "0"]
    /\ UNCHANGED <<store, sup, run, call, probe>>

\* loadSecrets rejected: console.error(message); process.exit(1)
ChildFails ==
    /\ child.state = "running"
    /\ run["child"].pc = "rejected"
    /\ child' = [child EXCEPT !.state = "exited", !.status = "1",
                              !.stderr = Append(@, run["child"].error)]
    /\ UNCHANGED <<store, sup, run, call, probe>>

-----------------------------------------------------------------------------
(* The Supervisor: loadSecretsSync in load.ts *)

\* What the pipe can hold besides the Fetcher's own lines: text of other
\* writers on the child's standard output
Garbled ==
    {<<LogLine("warning"), NL>>,
     <<LogLine("warning"), NL, MARKER, NL, NULL, NL>>,
     <<MARKER, NL, Num("7"), NL>>,
     <<MARKER, NL, LBRACK, Str("x"), RBRACK, NL>>,
     <<MARKER, NL, LBRACE, Str("A"), COLON, Num("1"), COMMA,
       Str("B"), COLON, Str("garbled"), RBRACE, NL>>}

\* Outputs in which the text of the marker occurs a second time: inside the
\* payload, in the value of the secret A, where split cuts the string in two,
\* and on a line after the payload
Remarked ==
    {<<MARKER, NL, LBRACE, Str("A"), COLON, PARTIAL, MARKER, PARTIAL, RBRACE, NL>>,
     <<MARKER, NL, LBRACE, Str("A"), COLON, Str("garbled"), RBRACE, NL, MARKER, NL>>}

\* What spawnSync captures of a child that wrote out: all of it, or a part
\* cut at any point, possibly inside a token, or another writer's text
Captured(out) ==
    {SubSeq(out, 1, n) : n \in 0..Len(out)}
        \cup {Append(SubSeq(out, 1, n - 1), PARTIAL) : n \in 1..Len(out)}
        \cup Garbled
        \cup Remarked

CanEnter == sup.pc \in {"Idle", "Done"} /\ sup.inv < MaxInvocations

\* load.ts is evaluated: the configuration is read and loadSecretsSync called
Entered ==
    [IdleSup EXCEPT !.inv = sup.inv + 1,
                    !.launches = sup.launches,
                    !.config = getConfigFromEnv(store["host"]),
                    !.entryEnv = store["host"]]

Finished(s, result, h) ==
    [s EXCEPT !.pc = "Done", !.result = result, !.outcome = h.outcome,
              !.secrets = h.secrets, !.logged = h.logged, !.raised = h.raised]

\* the guard is set: return at once
SkipLoaded ==
    /\ CanEnter
    /\ AlreadyLoaded(store["host"])
    /\ sup' = [Entered EXCEPT !.pc = "Done", !.outcome = "Skipped", !.logged = "debug"]
    /\ UNCHANGED <<store, child, run, call, probe>>

\* spawnSync launches the child with a copy of process.env and blocks
SpawnChild ==
    /\ CanEnter
    /\ ~AlreadyLoaded(store["host"])
    /\ sup' = [Entered EXCEPT !.pc = "AwaitingChild", !.launches = @ + 1,
                              !.wait = SpawnTimeout(Entered.config)]
    /\ store' = [store EXCEPT !["child"] = store["host"]]
    /\ child' = [NoChild EXCEPT !.state = "running"]
    /\ run' = [run EXCEPT !["child"] = StartedRun(getConfigFromEnv(store["host"]))]
    /\ UNCHANGED <<call, probe>>

\* spawnSync cannot launch the child: result.error
LaunchFails ==
    /\ CanEnter
    /\ ~AlreadyLoaded(store["host"])
    /\ LET result == Result("ENOENT", "null", <<>>)
           h == HandleResult(Entered.config, store["host"], result)
       IN /\ sup' = Finished([Entered EXCEPT !.wait = SpawnTimeout(Entered.config)],
                              result, h)
          /\ store' = [p \in Procs |-> IF p = "host" THEN h.env ELSE EmptyEnv]
    /\ child' = NoChild
    /\ run' = [run EXCEPT !["child"] = IdleRun]
    /\ UNCHANGED <<call, probe>>

\* the child has exited: spawnSync returns its status and its output
SpawnReturns ==
    /\ sup.pc = "AwaitingChild"
    /\ child.state = "exited"
    /\ ~child.orphan
    /\ \E stdout \in Captured(child.stdout) :
         LET result == Result("none", child.status, stdout)
             h == HandleResult(sup.config, store["host"], result)
         IN /\ sup' = Finished(sup, result, h)
            /\ store' = [p \in Procs |-> IF p = "host" THEN h.env ELSE EmptyEnv]
    /\ child' = NoChild
    /\ run' = [run EXCEPT !["child"] = IdleRun]
    /\ UNCHANGED <<call, probe>>

\* the timeout elapses first: spawnSync returns result.error and what the
\* child wrote so far; the child is signalled but may go on for a while
WaitTimesOut ==
    /\ sup.pc = "AwaitingChild"
    /\ child.state \in {"running", "written"}
    /\ ~child.orphan
    /\ LET result == Result("ETIMEDOUT", "null", child.stdout)
           h == HandleResult(sup.config, store["host"], result)
       IN /\ sup' = Finished(sup, result, h)
          /\ store' = [store EXCEPT !["host"] = h.env]
    /\ child' = [child EXCEPT !.orphan = TRUE]
    /\ UNCHANGED <<run, call, probe>>

Next ==
    \/ SkipLoaded
    \/ SpawnChild
    \/ LaunchFails
    \/ SpawnReturns
    \/ WaitTimesOut
    \/ ChildWrites
    \/ ChildExits
    \/ ChildFails
    \/ \E r \in Runs : ResolveProject(r)
    \/ \E r \in Runs : ResolveKeys(r)
    \/ \E r \in Runs : \E i \in 1..Len(run[r].slot) : FetchSettles(r, i)
    \/ \E r \in Runs : ReturnLoaded(r)

Spec == Init /\ [][Next]_vars

-----------------------------------------------------------------------------
(* The programmatic entry point: loadSecrets of index.ts, and withTimeout *)

\* the options of a call: the fields it supplies and their values
Options(fields, values) == [fields |-> fields, values |-> values]
NoOptions == Options({}, defaultConfig)
OptionSets ==
    {NoOptions,
     Options({"timeout"}, [defaultConfig EXCEPT !.timeout = 0]),
     Options({"timeout"}, [defaultConfig EXCEPT !.timeout = 250]),
     Options({"secretKeys", "overrideExisting"},
             [defaultConfig EXCEPT !.secretKeys = SomeKeys(<<"A">>),
                                   !.overrideExisting = TRUE]),
     Options({"prefix"}, [defaultConfig EXCEPT !.prefix = ""]),
     Options({"overrideExisting"}, defaultConfig)}

\* a slip: the spread the other way round, { ...options, ...envConfig }
mergeConfigEnvLast(options, env) == getConfigFromEnv(env)

\* { ...envConfig, ...options }
mergeConfig(options, env) ==
    [f \in DOMAIN defaultConfig |->
        IF f \in options.fields THEN options.values[f] ELSE getConfigFromEnv(env)[f]]

TimeoutMessage == "Secret loading timed out"

\* the catch clause of loadSecrets: the error is logged and thrown on
Failed(c, error) == [c EXCEPT !.pc = "failed", !.error = error]

\* loadSecrets(options) up to its first await: with a timeout the load is
\* started inside withTimeout and the timer set, without one the load is
\* started and awaited as it is
CallLoadSecrets ==
    /\ call.pc = "idle"
    /\ \E options \in OptionSets :
         LET config == mergeConfig(options, store["host"])
         IN IF config.timeout # 0
            THEN /\ call' = [call EXCEPT !.pc = "timed", !.options = options,
                                         !.config = config, !.timer = "armed"]
                 /\ run' = [run EXCEPT !["timed"] = StartedRun(config)]
            ELSE /\ call' = [call EXCEPT !.pc = "plain", !.options = options,
                                         !.config = config]
                 /\ run' = [run EXCEPT !["plain"] = StartedRun(config)]
    /\ UNCHANGED <<store, sup, child, probe>>

\* the wrapped load resolved first: the timer is cleared, its mapping is
\* logged, and the load is started again on the same SecretManager
TimedResolves ==
    /\ call.pc = "timed"
    /\ run["timed"].pc = "returned"
    /\ call' = [call EXCEPT !.pc = "plain", !.timer = "cleared", !.elapsed = FALSE]
    /\ run' = [run EXCEPT !["plain"] = StartedRun(run["timed"].config)]
    /\ UNCHANGED <<store, sup, child, probe>>

\* the wrapped load rejected first: the error is thrown on, the timer stays
TimedRejects ==
    /\ call.pc = "timed"
    /\ run["timed"].pc = "rejected"
    /\ call' = Failed(call, run["timed"].error)
    /\ UNCHANGED <<store, sup, child, run, probe>>

\* config.timeout has passed and the timer runs: while the wrapped load is
\* pending the race rejects with the timeout error; after the call has
\* failed the rejection goes nowhere
TimerFires ==
    /\ call.timer = "armed"
    /\ \/ /\ call.pc = "timed"
          /\ run["timed"].pc \notin {"returned", "rejected"}
          /\ call' = [Failed(call, TimeoutMessage) EXCEPT !.timer = "fired",
                                                          !.elapsed = TRUE]
       \/ /\ call.pc = "failed"
          /\ call' = [call EXCEPT !.timer = "fired"]
    /\ UNCHANGED <<store, sup, child, run, probe>>

\* config.timeout has passed since the second load was started and it is
\* still pending: no timer was set for it
TimeElapses ==
    /\ call.pc = "plain"
    /\ call.config.timeout # 0
    /\ ~call.elapsed
    /\ run["plain"].pc \notin {"returned", "rejected"}
    /\ call' = [call EXCEPT !.elapsed = TRUE]
    /\ UNCHANGED <<store, sup, child, run, probe>>

\* return await secretManager.loadSecrets()
PlainResolves ==
    /\ call.pc = "plain"
    /\ run["plain"].pc = "returned"
    /\ call' = [call EXCEPT !.pc = "returned", !.result = run["plain"].loaded]
    /\ UNCHANGED <<store, sup, child, run, probe>>

PlainRejects ==
    /\ call.pc = "plain"
    /\ run["plain"].pc = "rejected"
    /\ call' = Failed(call, run["plain"].error)
    /\ UNCHANGED <<store, sup, child, run, probe>>

\* the stores a host calls loadSecrets in
CallEnvs == {env \in HostEnvs : ~Has(env, KEYS_FILE_VAR)}

InitCall ==
    /\ \E env \in CallEnvs :
         store = [p \in Procs |-> IF p = "host" THEN env ELSE EmptyEnv]
    /\ sup = IdleSup
    /\ child = NoChild
    /\ run = [r \in Runs |-> IdleRun]
    /\ call = IdleCall
    /\ probe = IdleProbe

NextCall ==
    \/ CallLoadSecrets
    \/ TimedResolves
    \/ TimedRejects
    \/ TimerFires
    \/ TimeElapses
    \/ PlainResolves
    \/ PlainRejects
    \/ \E r \in Runs : ResolveProject(r)
    \/ \E r \in Runs : ResolveKeys(r)
    \/ \E r \in Runs : \E i \in 1..Len(run[r].slot) : FetchSettles(r, i)
    \/ \E r \in Runs : ReturnLoaded(r)

SpecCall == InitCall /\ [][NextCall]_vars

\* the steps the host takes by itself: the runtime runs a timer that is due
\* and a continuation whose promise has settled, and the local steps of a
\* load go on; that a request to the remote store is ever answered is left
\* open
HostSteps ==
    \/ CallLoadSecrets
    \/ TimedResolves
    \/ TimedRejects
    \/ TimerFires
    \/ TimeElapses
    \/ PlainResolves
    \/ PlainRejects
    \/ \E r \in Runs : ResolveProject(r)
    \/ \E r \in Runs : ResolveKeys(r)
    \/ \E r \in Runs : ReturnLoaded(r)

SpecCallLive == SpecCall /\ WF_vars(HostSteps)

-----------------------------------------------------------------------------
(* The name resolution on its own: the step of loadSecrets from a known    *)
(* project id to the issued requests, applied to every configuration the   *)
(* environment can give and to every content of the sources                *)

\* a load that has its project id, and what its sources hold
Asked(env, explicitFile, found, listing) ==
    [IdleProbe EXCEPT !.pc = "asked",
                      !.run = ProjectKnown(StartedRun(getConfigFromEnv(env)), "proj"),
                      !.env = env,
                      !.explicitFile = explicitFile,
                      !.found = found,
                      !.listing = listing]

\* the stores that differ in what they configure; every source holds
\* something whether the chain comes to consult it or not
ResolveEnvs == {env \in HostEnvs : DOMAIN env \cap (PresetKeys \cup {PROJECT_KEY}) = {}}
FilesAt(path) == IF path \in {UNDEF, ""} THEN {NoFile} ELSE Files

InitResolve ==
    /\ \E env \in ResolveEnvs :
         \E explicitFile \in FilesAt(getConfigFromEnv(env).secretKeysFile),
            found \in Files \cup {NoFile},
            listing \in Listings :
             probe = Asked(env, explicitFile, found, listing)
    /\ store = [p \in Procs |-> EmptyEnv]
    /\ sup = IdleSup
    /\ child = NoChild
    /\ run = [r \in Runs |-> IdleRun]
    /\ call = IdleCall

\* getSecretKeys and the statements after it, on the inputs of the probe
ResolveNames ==
    /\ probe.pc = "asked"
    /\ LET w == KeysResolved(probe.run, probe.env, probe.explicitFile, probe.found,
                             probe.listing)
       IN probe' = [probe EXCEPT !.pc = "resolved", !.out = w.run, !.outEnv = w.env]
    /\ UNCHANGED <<store, sup, child, run, call>>

NextResolve == ResolveNames

SpecResolve == InitResolve /\ [][NextResolve]_vars

-----------------------------------------------------------------------------
(* The Config Resolver on its own: getConfigFromEnv called twice on every  *)
(* text the configuration variables can hold, well formed or not           *)

ConfigEnvs ==
    LET keys == {UNDEF, "", "A", "A,B", ",", " A , ,B"}
        file == {UNDEF, "secrets.json"}
        flag == {UNDEF, "", "true", "TRUE", "false", "yes"}
        debug == {UNDEF, "true", "1"}
        timeout == {UNDEF, "", "0", "250", "250ms", "soon"}
        auto == {UNDEF, "", "false", "FALSE", "true", "no"}
        prefix == {UNDEF, "", "P_"}
    IN {WithVar(WithVar(WithVar(WithVar(WithVar(WithVar(WithVar(EmptyEnv,
            KEYS_VAR, c[1]), KEYS_FILE_VAR, c[2]), OVERRIDE_VAR, c[3]),
            DEBUG_VAR, c[4]), TIMEOUT_VAR, c[5]), AUTO_DISCOVER_VAR, c[6]),
            PREFIX_VAR, c[7]) :
          c \in keys \X file \X flag \X debug \X timeout \X auto \X prefix}

InitConfig ==
    /\ \E env \in ConfigEnvs : probe = [IdleProbe EXCEPT !.pc = "env", !.env = env]
    /\ store = [p \in Procs |-> EmptyEnv]
    /\ sup = IdleSup
    /\ child = NoChild
    /\ run = [r \in Runs |-> IdleRun]
    /\ call = IdleCall

\* const config = getConfigFromEnv(): the snapshot, and process.env after it
ReadConfig ==
    /\ probe.pc = "env"
    /\ probe' = [probe EXCEPT !.pc = "read",
                              !.run = [@ EXCEPT !.config = getConfigFromEnv(probe.env)],
                              !.outEnv = probe.env]
    /\ UNCHANGED <<store, sup, child, run, call>>

\* a second call on the same process.env
ReadConfigAgain ==
    /\ probe.pc = "read"
    /\ probe' = [probe EXCEPT !.pc = "reread",
                              !.out = [@ EXCEPT !.config = getConfigFromEnv(probe.env)],
                              !.outEnv = probe.env]
    /\ UNCHANGED <<store, sup, child, run, call>>

NextConfig == ReadConfig \/ ReadConfigAgain

SpecConfig == InitConfig /\ [][NextConfig]_vars

-----------------------------------------------------------------------------
(* The discovery walk on its own: findConfigFile, on a chain of            *)
(* directories from the root, depth 0, down to the start directory         *)

\* const maxLevels = 10
MaxLevels == 10

\* what stat finds under CONFIG_FILENAME in the directory of each depth: a
\* file, something that is no file, or nothing (stat throws); at most two
\* directories of a chain hold an entry of that name
Chains ==
    {[d \in 0..MaxDepth |-> IF d = a THEN ka ELSE IF d = b THEN kb ELSE "none"] :
        a \in 0..MaxDepth, b \in 0..MaxDepth,
        ka \in {"none", "file", "dir"}, kb \in {"none", "file", "dir"}}

NotFound == [found |-> FALSE, at |-> 0]
FoundAt(d) == [found |-> TRUE, at |-> d]

\* findConfigFile(startDir) at the head of its loop
Walking(chain, startDir) ==
    [pc |-> "walk", chain |-> chain, startDir |-> startDir, currentDir |-> startDir,
     levels |-> 0, examined |-> {}, result |-> NotFound]

\* a slip: the walk is not limited to maxLevels
WalkUpUnlimited(w) ==
    IF w.chain[w.currentDir] = "file"
    THEN [w EXCEPT !.pc = "done", !.examined = @ \cup {w.currentDir},
                   !.result = FoundAt(w.currentDir)]
    ELSE IF w.currentDir = 0
    THEN [w EXCEPT !.pc = "done", !.examined = @ \cup {w.currentDir}]
    ELSE [w EXCEPT !.examined = @ \cup {w.currentDir},
                   !.currentDir = @ - 1, !.levels = @ + 1]

\* one test of the loop condition and, where it holds, one round of the
\* loop: stat, the return of a file's path, the step to the parent, which
\* for the root is the root itself
WalkUp(w) ==
    IF ~(w.levels < MaxLevels)
    THEN [w EXCEPT !.pc = "done"]
    ELSE IF w.chain[w.currentDir] = "file"
    THEN [w EXCEPT !.pc = "done", !.examined = @ \cup {w.currentDir},
                   !.result = FoundAt(w.currentDir)]
    ELSE IF w.currentDir = 0
    THEN [w EXCEPT !.pc = "done", !.examined = @ \cup {w.currentDir}]
    ELSE [w EXCEPT !.examined = @ \cup {w.currentDir},
                   !.currentDir = @ - 1, !.levels = @ + 1]

InitFind ==
    /\ \E chain \in Chains, startDir \in 0..MaxDepth : probe = Walking(chain, startDir)
    /\ store = [p \in Procs |-> EmptyEnv]
    /\ sup = IdleSup
    /\ child = NoChild
    /\ run = [r \in Runs |-> IdleRun]
    /\ call = IdleCall

Examine ==
    /\ probe.pc = "walk"
    /\ probe' = WalkUp(probe)
    /\ UNCHANGED <<store, sup, child, run, call>>

NextFind == Examine

\* the walk is a loop of the one function: it goes on while it can
SpecFind == InitFind /\ [][NextFind]_vars /\ WF_vars(NextFind)

-----------------------------------------------------------------------------
(* One load on its own: a SecretManager constructed with a name list, from *)
(* the known project id to the returned mapping, with names and a prefix   *)
(* that meet the key of the project id                                      *)

LoadNames == {"A", "PROJECT_ID", PROJECT_KEY}
LoadLists == SeqsUpTo(LoadNames, MaxKeys) \ {<<>>}
LoadPrefixes == {UNDEF, "GOOGLE_"}
LoadEnvs ==
    {EmptyEnv, SetKey(EmptyEnv, PROJECT_KEY, "oldproj"), SetKey(EmptyEnv, "A", "old")}

\* new SecretManager(config) and loadSecrets up to the known project id
Constructed(env, config) ==
    [IdleProbe EXCEPT !.pc = "asked",
                      !.run = ProjectKnown(StartedRun(config), "proj"),
                      !.env = env]

InitLoad ==
    /\ \E env \in LoadEnvs, l \in LoadLists, prefix \in LoadPrefixes,
          overrideExisting \in BOOLEAN :
         probe = Constructed(env, [defaultConfig EXCEPT
                                      !.secretKeys = SomeKeys(l),
                                      !.prefix = prefix,
                                      !.overrideExisting = overrideExisting])
    /\ store = [p \in Procs |-> EmptyEnv]
    /\ sup = IdleSup
    /\ child = NoChild
    /\ run = [r \in Runs |-> IdleRun]
    /\ call = IdleCall

\* one request of the load settles and the callback of the secret runs
ProbeSettles(i) ==
    /\ probe.pc = "resolved"
    /\ probe.out.pc \in {"fetching", "returned"}
    /\ probe.out.slot[i] = "pending"
    /\ \E answered \in BOOLEAN :
         LET w == IF answered THEN StoreSecret(probe.out, probe.outEnv, i)
                  ELSE SkipSecret(probe.out, probe.outEnv, i)
         IN probe' = [probe EXCEPT !.out = w.run, !.outEnv = w.env]
    /\ UNCHANGED <<store, sup, child, run, call>>

\* await Promise.all(loadPromises) and the return of loadedSecrets
ProbeReturns ==
    /\ probe.pc = "resolved"
    /\ probe.out.pc = "fetching"
    /\ AllSettled(probe.out)
    /\ probe' = [probe EXCEPT !.out.pc = "returned"]
    /\ UNCHANGED <<store, sup, child, run, call>>

NextLoad ==
    \/ ResolveNames
    \/ \E i \in 1..Len(probe.out.slot) : ProbeSettles(i)
    \/ ProbeReturns

SpecLoad == InitLoad /\ [][NextLoad]_vars

-----------------------------------------------------------------------------
(* Properties of the Supervisor *)

\* the Supervisor has returned from a call that went past the guard
Returned == sup.pc = "Done" /\ sup.outcome # "Skipped"

\* the environment store of the host is as it was at entry, without the guard
Untouched == store["host"] = sup.entryEnv /\ ~Has(store["host"], GUARD_KEY)

\* C1: when the child cannot be launched, exits with a non-zero status or
\* the wait times out, the store at the return of the Supervisor equals the
\* store at entry and the guard flag is not set
C1_FailedChildLeavesStore ==
    (Returned /\ (sup.result.error # "none" \/ sup.result.status # "0"))
        => Untouched

\* a child that exited non-zero although its output holds a payload that
\* would merge
C1_Witness ==
    /\ Returned
    /\ sup.result.error = "none"
    /\ sup.result.status = "1"
    /\ ~ParseOutput(sup.result.stdout).threw
    /\ ObjectEntries(ParseOutput(sup.result.stdout).secrets) # <<>>

\* the captured output has no marker, or what follows the first marker is
\* not JSON
Malformed(stdout) ==
    \/ Len(Split(stdout)) < 2
    \/ ~JSONParse(Trim(Split(stdout)[2])).ok

\* C2: when the child exits 0 and its output has no marker or an unparsable
\* payload, however it was cut, the store is unmodified and the guard flag
\* is not set
C2_MalformedOutputLeavesStore ==
    (Returned /\ sup.result.error = "none" /\ sup.result.status = "0"
              /\ Malformed(sup.result.stdout))
        => Untouched

\* the pairs of the payload the merge loop goes through
PayloadKeys == {sup.secrets[i][1] : i \in 1..Len(sup.secrets)}
PayloadValue(k) == sup.secrets[CHOOSE i \in 1..Len(sup.secrets) : sup.secrets[i][1] = k][2]
Allowed(k) == sup.config.overrideExisting \/ ~Has(sup.entryEnv, k)
MergeKeys == DOMAIN store["host"] \cup DOMAIN sup.entryEnv \cup PayloadKeys \cup {GUARD_KEY}

\* C3, as the code has it: on Success every pair of the payload whose value
\* is a string is written if and only if overrideExisting is true or the key
\* is unset; every other key keeps what it had, and the guard flag is set
C3_MergeWritesStringPairs ==
    (Returned /\ sup.outcome = "Success") =>
        \A k \in MergeKeys :
            Get(store["host"], k) =
                IF k = GUARD_KEY THEN "1"
                ELSE IF k \in PayloadKeys /\ PayloadValue(k).type = "string" /\ Allowed(k)
                THEN PayloadValue(k).s
                ELSE Get(sup.entryEnv, k)

\* C3, as stated: every pair of the payload, whatever its value, is written
\* if and only if overrideExisting is true or the key is unset
C3_MergeWritesEveryPair ==
    (Returned /\ sup.outcome = "Success") =>
        \A k \in MergeKeys :
            Get(store["host"], k) =
                IF k = GUARD_KEY THEN "1"
                ELSE IF k \in PayloadKeys /\ Allowed(k)
                THEN PayloadValue(k).s
                ELSE Get(sup.entryEnv, k)

\* a Success that wrote one pair and kept the preset value of another
C3_Witness ==
    /\ Returned
    /\ sup.outcome = "Success"
    /\ \E k \in PayloadKeys :
         /\ PayloadValue(k).type = "string"
         /\ ~Has(sup.entryEnv, k)
         /\ Get(store["host"], k) = PayloadValue(k).s
    /\ \E k \in PayloadKeys :
         /\ PayloadValue(k).type = "string"
         /\ Has(sup.entryEnv, k)
         /\ ~sup.config.overrideExisting
         /\ store["host"][k] = sup.entryEnv[k]
         /\ store["host"][k] # PayloadValue(k).s

\* C4, as stated: whatever the first invocation came to, two invocations on
\* one store launch the child once
C4_LaunchedOnce == sup.launches <= 1

\* C4, as the code has it: once an invocation has reached Success, a later
\* invocation on the same store launches no child
C4_NoLaunchAfterSuccess ==
    [][sup.outcome \in {"Success", "Skipped"} => sup'.launches = sup.launches]_vars

\* a second invocation that returned at the guard the first one has set
C4_Witness ==
    /\ sup.inv = 2
    /\ sup.pc = "Done"
    /\ sup.outcome = "Skipped"
    /\ sup.launches = 1

\* C5: an invocation that finds the guard flag in the store goes to Done at
\* once, launches no child and leaves every key of the store as it was
C5_GuardSkipsLoad ==
    [][(Has(store["host"], GUARD_KEY) /\ sup'.inv # sup.inv) =>
          /\ sup'.pc = "Done"
          /\ sup'.launches = sup.launches
          /\ store' = store
          /\ child' = child
          /\ run' = run]_vars

\* an invocation that found the guard and is Done with the store it found
C5_Witness ==
    /\ sup.pc = "Done"
    /\ sup.outcome = "Skipped"
    /\ Has(sup.entryEnv, GUARD_KEY)
    /\ store["host"] = sup.entryEnv

\* C6: from the moment the wait has timed out, no step writes the host's
\* store, whatever the child goes on to write
C6_NoMergeAfterTimeout ==
    [][sup'.result.error = "ETIMEDOUT" => store'["host"] = store["host"]]_vars

\* a child that was timed out, went on and exited 0 with a payload that
\* would merge, while the host's store is as at entry
C6_Witness ==
    /\ sup.result.error = "ETIMEDOUT"
    /\ child.orphan
    /\ child.state = "exited"
    /\ child.status = "0"
    /\ ~ParseOutput(child.stdout).threw
    /\ Len(ObjectEntries(ParseOutput(child.stdout).secrets)) > 1
    /\ store["host"] = sup.entryEnv

-----------------------------------------------------------------------------
(* Properties of the Fetcher child and of SecretManager.loadSecrets *)

\* the standard output is the marker line and one line of JSON that parses
\* back to the whole mapping, and nothing else
MarkerThenMapping(stdout, loaded) ==
    /\ Len(stdout) >= 4
    /\ stdout[1] = MARKER
    /\ stdout[2] = NL
    /\ stdout[Len(stdout)] = NL
    /\ \A n \in 3..(Len(stdout) - 1) : stdout[n] \notin {NL, MARKER}
    /\ LET p == JSONParse(SubSeq(stdout, 3, Len(stdout) - 1))
       IN /\ p.ok
          /\ p.val.type = "object"
          /\ p.val.items = [n \in 1..Len(loaded) |-> <<loaded[n][1], JString(loaded[n][2])>>]

\* the child failed: nothing on standard output, the diagnostic on standard
\* error, and the exit status, once there is one, is not 0
FailsCleanly ==
    /\ child.stdout = <<>>
    /\ child.status # "0"
    /\ child.state = "exited" => child.status = "1" /\ child.stderr # <<>>

\* C8, as stated: the child exits 0 only after the marker line and the JSON
\* of the whole mapping, and a run in which the resolution or a fetch fails
\* writes nothing to standard output and exits non-zero
C8_AnyFailureFailsChild ==
    /\ child.status = "0" =>
          /\ run["child"].pc = "returned"
          /\ MarkerThenMapping(child.stdout, run["child"].loaded)
    /\ (child.state # "none"
          /\ (run["child"].pc = "rejected" \/ SomeFailed(run["child"])))
          => FailsCleanly

\* C8, as the code has it: the child exits 0 only after the marker line and
\* the JSON of the whole mapping; a run in which loadSecrets rejects, for
\* want of a project id or of secret names, writes nothing to standard
\* output and exits non-zero; the failed fetch of one secret is caught and
\* fails nothing
C8_RejectedLoadFailsChild ==
    /\ child.status = "0" =>
          /\ run["child"].pc = "returned"
          /\ AllSettled(run["child"])
          /\ MarkerThenMapping(child.stdout, run["child"].loaded)
    /\ (child.state # "none" /\ run["child"].pc = "rejected") => FailsCleanly
    /\ child.status = "1" => run["child"].pc = "rejected"

\* a child that exited non-zero after the resolution of the names failed
C8_Witness ==
    /\ child.state = "exited"
    /\ child.status = "1"
    /\ run["child"].pc = "rejected"
    /\ run["child"].consulted # {}
    /\ child.stdout = <<>>
    /\ child.stderr # <<>>

\* the callback of request i of run r stores its value in this step
Stores(r, i) ==
    /\ run[r].pc = "fetching"
    /\ i \in 1..Len(run[r].slot)
    /\ run[r].slot[i] = "pending"
    /\ i \in 1..Len(run'[r].slot)
    /\ run'[r].slot[i] = "ok"

\* the callback of request i of run r catches a failure in this step
Fails(r, i) ==
    /\ run[r].pc = "fetching"
    /\ i \in 1..Len(run[r].slot)
    /\ run[r].slot[i] = "pending"
    /\ i \in 1..Len(run'[r].slot)
    /\ run'[r].slot[i] = "failed"

\* the key of request i: the name, after the prefix if there is one
KeyOf(rn, i) ==
    IF rn.config.prefix = UNDEF THEN rn.secretKeys[i]
    ELSE rn.config.prefix \o rn.secretKeys[i]

\* C9: a key that is set in the store while overrideExisting is false keeps
\* its value when a value is fetched for it, and the mapping holds the
\* fetched value under that key
C9_PresetKeyKept ==
    [][\A r \in Runs : \A i \in 1..MaxKeys + 1 :
          (Stores(r, i) /\ Has(store[ProcOf(r)], KeyOf(run[r], i))
                        /\ ~run[r].config.overrideExisting)
          => /\ store'[ProcOf(r)] = store[ProcOf(r)]
             /\ ObjHas(run'[r].loaded, KeyOf(run[r], i))
             /\ ObjGet(run'[r].loaded, KeyOf(run[r], i)) = SecretValue(run[r].secretKeys[i])]_vars

\* a load that has returned with a preset key still at its old value and
\* the fetched value in the mapping
C9_Witness ==
    \E r \in Runs : \E i \in 1..Len(run[r].slot) :
        /\ run[r].pc = "returned"
        /\ run[r].slot[i] = "ok"
        /\ ~run[r].config.overrideExisting
        /\ Get(store[ProcOf(r)], KeyOf(run[r], i)) = "old"
        /\ ObjGet(run[r].loaded, KeyOf(run[r], i)) = SecretValue(run[r].secretKeys[i])
        /\ SecretValue(run[r].secretKeys[i]) # "old"

\* the keys of the requests that succeeded
StoredKeys(rn) == {KeyOf(rn, i) : i \in {n \in 1..Len(rn.slot) : rn.slot[n] = "ok"}}

\* a load with a failed request is not rejected, and the mapping it returns
\* holds the project id and the keys of the requests that succeeded
PartialLoad(rn) ==
    /\ SomeFailed(rn) => rn.pc \in {"fetching", "returned"}
    /\ rn.pc = "returned" => ObjKeys(rn.loaded) = {PROJECT_KEY} \cup StoredKeys(rn)

\* the step of a failing request changes nothing but its own slot
FailureIsLocal(r, i) ==
    Fails(r, i) =>
        /\ store' = store
        /\ run'[r] = [run[r] EXCEPT !.slot[i] = "failed"]

\* C10: when some fetches fail the load still returns; the mapping holds
\* the project id and one entry for each name that was fetched, none for a
\* failed name; the store gets no write for a failed name; the other
\* requests go on as they were
C10_FailedFetchesSkipped ==
    /\ [](\A r \in Runs : PartialLoad(run[r]))
    /\ [][\A r \in Runs : \A i \in 1..MaxKeys + 1 : FailureIsLocal(r, i)]_vars

\* a load of two names that returned after the first failed and the second
\* was fetched afterwards
C10_Witness ==
    \E r \in Runs :
        /\ run[r].pc = "returned"
        /\ Len(run[r].slot) = 2
        /\ run[r].slot[1] = "failed"
        /\ run[r].slot[2] = "ok"
        /\ run[r].afterFail
        /\ ObjKeys(run[r].loaded) = {PROJECT_KEY, KeyOf(run[r], 2)}
        /\ ~Has(store[ProcOf(r)], KeyOf(run[r], 1))

-----------------------------------------------------------------------------
(* Properties of the project id and of the priority chain *)

\* C11: the mapping of every load that returned holds the GOOGLE_PROJECT_ID
\* entry, with names or without, and under any prefix the entry's key is
\* the bare GOOGLE_PROJECT_ID
C11_ProjectEntryPresent ==
    \A r \in Runs :
        run[r].pc = "returned" =>
            /\ ObjHas(run[r].loaded, PROJECT_KEY)
            /\ run[r].loaded[1][1] = PROJECT_KEY
            /\ run[r].config.prefix # UNDEF =>
                  ~ObjHas(run[r].loaded, run[r].config.prefix \o PROJECT_KEY)
                      \/ run[r].config.prefix = ""

\* a load under a prefix that resolved to no names and returned the lone
\* project-id entry
C11_Witness ==
    \E r \in Runs :
        /\ run[r].pc = "returned"
        /\ run[r].secretKeys = <<>>
        /\ run[r].config.prefix = "P_"
        /\ ObjKeys(run[r].loaded) = {PROJECT_KEY}

\* the payload names the project id
PayloadProject ==
    /\ PROJECT_KEY \in PayloadKeys
    /\ PayloadValue(PROJECT_KEY).type = "string"

\* C12: after a load that succeeded the store's GOOGLE_PROJECT_ID is the
\* resolved project id, whatever it held before and whatever
\* overrideExisting is; here for the preload path, where the resolved id is
\* the one the payload carries
C12_ProjectIdOverwritten ==
    (Returned /\ sup.outcome = "Success" /\ PayloadProject)
        => Get(store["host"], PROJECT_KEY) = PayloadValue(PROJECT_KEY).s

\* C13: a load without a project id is rejected before any name is
\* resolved: nothing was consulted, no request issued, no mapping built
C13_NoProjectIsFatal ==
    \A r \in Runs :
        (run[r].pc \notin {"idle", "project"} /\ run[r].projectId = UNDEF) =>
            /\ run[r].pc = "rejected"
            /\ run[r].error = "Project ID is required"
            /\ run[r].consulted = {}
            /\ run[r].secretKeys = <<>>
            /\ run[r].slot = <<>>
            /\ run[r].loaded = <<>>
            /\ ~Has(store[ProcOf(r)], PROJECT_KEY) \/ store[ProcOf(r)][PROJECT_KEY] = "oldproj"

\* a load rejected for want of a project id although names are configured
C13_Witness ==
    \E r \in Runs :
        /\ run[r].pc = "rejected"
        /\ run[r].projectId = UNDEF
        /\ run[r].config.secretKeys.def
        /\ run[r].config.secretKeys.list # <<>>

\* the run has a name list and a file path configured
ListAndFile(rn) ==
    /\ rn.config.secretKeys.def
    /\ Len(rn.config.secretKeys.list) > 0
    /\ rn.config.secretKeysFile \notin {UNDEF, ""}

\* C14: with a non-empty name list and a file path both configured the
\* resolved names are the list as it is, and neither the file, nor
\* discovery, nor the listing is consulted
C14_ListBeatsFile ==
    \A r \in Runs :
        (ListAndFile(run[r]) /\ run[r].pc \in {"fetching", "returned", "rejected"}
                             /\ run[r].projectId # UNDEF) =>
            /\ run[r].pc # "rejected"
            /\ run[r].secretKeys = run[r].config.secretKeys.list
            /\ run[r].consulted = {}

\* a load with list and file configured that returned the list's names
C14_Witness ==
    \E r \in Runs :
        /\ ListAndFile(run[r])
        /\ run[r].pc = "returned"
        /\ run[r].secretKeys = <<"A", "B">>
        /\ run[r].consulted = {}
        /\ AllSettled(run[r])

\* the run of the probe has no usable name list configured
NoList(rn) == ~rn.config.secretKeys.def \/ rn.config.secretKeys.list = <<>>
\* the run of the probe has a file path configured
FilePath(rn) == rn.config.secretKeysFile \notin {UNDEF, ""}

\* the file cannot be read, is not JSON, or is neither an array nor an
\* object with an array under "secrets"
Unusable(file) ==
    \/ file.state # "json"
    \/ /\ file.value.type # "array"
       /\ ~(/\ file.value.type = "object"
            /\ ObjHas(file.value.items, "secrets")
            /\ ObjGet(file.value.items, "secrets").type = "array")

\* C15: with a file path and no usable name list configured, a file that
\* cannot be read, is not JSON or has neither shape fails the load: neither
\* discovery nor the listing is consulted, whatever they hold, no request is
\* issued and the store is as it was
C15_BadExplicitFileIsFatal ==
    (probe.pc = "resolved" /\ NoList(probe.run) /\ FilePath(probe.run)
                           /\ Unusable(probe.explicitFile)) =>
        /\ probe.out.pc = "rejected"
        /\ probe.out.consulted = {"file"}
        /\ probe.out.secretKeys = <<>>
        /\ probe.out.slot = <<>>
        /\ probe.out.loaded = <<>>
        /\ probe.outEnv = probe.env

\* a load rejected for a file with only a prefix in it, while a discovery
\* file and the listing both had names to give
C15_Witness ==
    /\ probe.pc = "resolved"
    /\ NoList(probe.run)
    /\ FilePath(probe.run)
    /\ probe.explicitFile = Json(JObject(<<<<"prefix", JString(FilePrefix)>>>>))
    /\ probe.found = Json(JList(<<"A">>))
    /\ probe.listing = Listing(TRUE, <<"A", "B">>)
    /\ probe.out.pc = "rejected"

\* discovery gives no names: it is switched off, finds no file, or finds a
\* file without a non-empty array of names
NothingDiscovered(rn, found) ==
    \/ ~rn.config.autoDiscoverConfig
    \/ found = NoFile
    \/ Unusable(found)
    \/ found.value.type = "array" /\ found.value.items = <<>>
    \/ found.value.type = "object" /\ Field(found.value, "secrets").items = <<>>

\* C16: with no usable name list and no file path configured, and nothing
\* discovered, the resolved names are the names the remote project lists,
\* in their order, and a request is issued for every one of them
C16_FallsThroughToListing ==
    (probe.pc = "resolved" /\ NoList(probe.run) /\ ~FilePath(probe.run)
                           /\ NothingDiscovered(probe.run, probe.found)
                           /\ probe.listing.ok) =>
        /\ probe.out.pc = IF probe.listing.names = <<>> THEN "returned" ELSE "fetching"
        /\ probe.out.secretKeys = probe.listing.names
        /\ "list" \in probe.out.consulted
        /\ probe.out.slot = [i \in 1..Len(probe.listing.names) |-> "pending"]
        /\ probe.out.config = probe.run.config

\* a discovered file with a prefix but no names, and two names listed and
\* requested
C16_Witness ==
    /\ probe.pc = "resolved"
    /\ NoList(probe.run)
    /\ ~FilePath(probe.run)
    /\ probe.run.config.autoDiscoverConfig
    /\ probe.found = Json(JObject(<<<<"prefix", JString(FilePrefix)>>>>))
    /\ probe.listing = Listing(TRUE, <<"A", "B">>)
    /\ probe.out.pc = "fetching"
    /\ probe.out.secretKeys = <<"A", "B">>
    /\ Len(probe.out.slot) = 2

\* the file in the object shape with the same array of names
AsObject(file) == Json(JObject(<<<<"secrets", file.value>>>>))
BareArray(file) == file.state = "json" /\ file.value.type = "array"

\* the names resolved from the sources of the probe with another explicit
\* file or another discovered file in place
NamesWithFile(file) ==
    KeysResolved(probe.run, probe.env, file, probe.found, probe.listing).run.secretKeys
NamesWithFound(file) ==
    KeysResolved(probe.run, probe.env, probe.explicitFile, file, probe.listing).run.secretKeys

\* C17: a file that is the bare array of a name list and the file that
\* holds the same array under "secrets" give the same names, read as the
\* explicit file and parsed as the discovered file, and so the same
\* resolved names
C17_ShapesAgree ==
    /\ (probe.pc = "resolved" /\ NoList(probe.run) /\ FilePath(probe.run)
                              /\ BareArray(probe.explicitFile)) =>
          /\ readSecretKeysFromFile(probe.explicitFile).ok
          /\ readSecretKeysFromFile(AsObject(probe.explicitFile)).ok
          /\ readSecretKeysFromFile(AsObject(probe.explicitFile)).data.secrets
                = readSecretKeysFromFile(probe.explicitFile).data.secrets
          /\ probe.out.secretKeys = ListOf(probe.explicitFile.value)
          /\ NamesWithFile(AsObject(probe.explicitFile)) = probe.out.secretKeys
    /\ (probe.pc = "resolved" /\ NoList(probe.run) /\ ~FilePath(probe.run)
                              /\ probe.run.config.autoDiscoverConfig
                              /\ BareArray(probe.found)) =>
          /\ parseConfigFile(AsObject(probe.found)).secrets
                = parseConfigFile(probe.found).secrets
          /\ parseConfigFile(probe.found).secrets = SomeKeys(ListOf(probe.found.value))
          /\ NamesWithFound(AsObject(probe.found)) = probe.out.secretKeys
          /\ probe.found.value.items # <<>> =>
                probe.out.secretKeys = ListOf(probe.found.value)

\* the names A, B resolved from a discovered bare array, as the object
\* shape would give them
C17_Witness ==
    /\ probe.pc = "resolved"
    /\ NoList(probe.run)
    /\ ~FilePath(probe.run)
    /\ probe.found = Json(JList(<<"A", "B">>))
    /\ probe.out.secretKeys = <<"A", "B">>
    /\ NamesWithFound(Json(JObject(<<<<"secrets", JList(<<"A", "B">>)>>>>))) = <<"A", "B">>

-----------------------------------------------------------------------------
(* Properties of the fetch *)

\* C18: the value fetched for the name n, asked for under the bare name,
\* enters the mapping under the prefix followed by n, under n itself when
\* the prefix is absent or empty, and no other key of the mapping or of the
\* store appears in that step
C18_PrefixedKey ==
    [][\A r \in Runs : \A i \in 1..MaxKeys + 1 :
          Stores(r, i) =>
              LET n == run[r].secretKeys[i]
                  prefix == run[r].config.prefix
                  key == IF prefix = UNDEF \/ prefix = "" THEN n ELSE prefix \o n
              IN /\ ObjHas(run'[r].loaded, key)
                 /\ ObjGet(run'[r].loaded, key) = SecretValue(n)
                 /\ ObjKeys(run'[r].loaded) = ObjKeys(run[r].loaded) \cup {key}
                 /\ DOMAIN store'[ProcOf(r)] \subseteq DOMAIN store[ProcOf(r)] \cup {key}
                 /\ ~Has(store[ProcOf(r)], key) => Get(store'[ProcOf(r)], key) = SecretValue(n)
                 /\ \A k \in DOMAIN store[ProcOf(r)] \ {key} :
                        store'[ProcOf(r)][k] = store[ProcOf(r)][k]]_vars

\* a load under the prefix P_ that fetched A and holds it under P_A in the
\* mapping and in the store, and nowhere under A
C18_Witness ==
    \E r \in Runs :
        /\ run[r].pc = "returned"
        /\ run[r].config.prefix = "P_"
        /\ run[r].secretKeys = <<"A">>
        /\ run[r].slot = <<"ok">>
        /\ ObjGet(run[r].loaded, "P_A") = SecretValue("A")
        /\ Get(store[ProcOf(r)], "P_A") = SecretValue("A")
        /\ ~Has(store[ProcOf(r)], "A")

\* what the priority chain gives on the inputs of the probe
ChainResult ==
    getSecretKeys(probe.run.config, probe.env, probe.explicitFile, probe.found,
                  probe.listing)

\* C19: a load whose chain resolves to no names returns at once, without
\* an error and without a request, and the project id is the only entry of
\* its mapping
C19_EmptyNamesSucceed ==
    (probe.pc = "resolved" /\ ChainResult.ok /\ ChainResult.keys = <<>>) =>
        /\ probe.out.pc = "returned"
        /\ probe.out.error = ""
        /\ probe.out.slot = <<>>
        /\ probe.out.loaded = <<<<PROJECT_KEY, "proj">>>>
        /\ Get(probe.outEnv, PROJECT_KEY) = "proj"

\* an explicit file with an empty array of names, and the load returned
\* with the lone project-id entry
C19_Witness ==
    /\ probe.pc = "resolved"
    /\ probe.explicitFile = Json(JList(<<>>))
    /\ probe.out.consulted = {"file"}
    /\ probe.out.pc = "returned"
    /\ probe.out.secretKeys = <<>>
    /\ ObjKeys(probe.out.loaded) = {PROJECT_KEY}


-----------------------------------------------------------------------------
(* Properties of the programmatic entry point *)

\* the call has given its caller a mapping
Resolved == call.pc = "returned"

\* the load in flight was not complete when config.timeout had passed
Overran == call.config.timeout # 0 /\ call.elapsed

\* C20: when the programmatic loadSecrets is called with a non-zero timeout
\* and a resolve-and-fetch sequence has not completed within that time, the
\* call gives its caller no mapping, and an error it fails with is the
\* timeout error
C20_OverrunFailsWithTimeout ==
    Overran => /\ ~Resolved
               /\ call.pc = "failed" => call.error = TimeoutMessage

-----------------------------------------------------------------------------
(* Properties of the settings a file contributes *)

\* the load of the probe has gone through the priority chain
ProbeResolved == probe.pc = "resolved"

\* C21: a prefix that the environment variable configures, the empty string
\* included, is the prefix of the load after the priority chain, whatever
\* prefix the explicit or the discovered file holds
C21_ConfiguredPrefixKept ==
    (ProbeResolved /\ Has(probe.env, PREFIX_VAR)) =>
        probe.out.config.prefix = probe.env[PREFIX_VAR]

\* the loads the programmatic call has started
HostRuns == {r \in Runs : ProcOf(r) = "host" /\ run[r].pc # "idle"}

\* overrideExisting was configured, by the options or by the variable
OverrideConfigured ==
    "overrideExisting" \in call.options.fields \/ Has(store["host"], OVERRIDE_VAR)

\* C22: an overrideExisting that the options of the call or the environment
\* variable configure, an explicit false included, is the overrideExisting
\* of every load of the call, whatever the explicit or the discovered file
\* holds
C22_ConfiguredOverrideKept ==
    OverrideConfigured =>
        \A r \in HostRuns : run[r].config.overrideExisting = call.config.overrideExisting

-----------------------------------------------------------------------------
(* Properties of the Config Resolver *)

\* the snapshot of the first call and of the second, once taken
HasRead == probe.pc \in {"read", "reread"}
Snapshot == probe.run.config
SnapshotAgain == probe.out.config

\* the text of a variable is absent, or not one of the texts in wellFormed
\* (flags are read without regard to case)
AbsentOrNot(k, wellFormed) ==
    ~Has(probe.env, k) \/ ToLowerCase(probe.env[k]) \notin wellFormed

\* the texts of the model that are a decimal integer, those that start with
\* one, and the texts of names that hold a name
DecimalTexts == {"0", "250"}
LeadingIntegerTexts == DecimalTexts \cup {"250ms"}
NamedTexts == {"A", "A,B", " A , ,B"}

\* the flags, the file and the prefix fall back to their defaults
FlagsDefault ==
    /\ AbsentOrNot(OVERRIDE_VAR, {"true", "false"}) => Snapshot.overrideExisting = FALSE
    /\ AbsentOrNot(DEBUG_VAR, {"true", "false"}) => Snapshot.debug = FALSE
    /\ AbsentOrNot(AUTO_DISCOVER_VAR, {"true", "false"}) =>
           Snapshot.autoDiscoverConfig = TRUE
    /\ ~Has(probe.env, KEYS_FILE_VAR) => Snapshot.secretKeysFile = UNDEF
    /\ ~Has(probe.env, PREFIX_VAR) => Snapshot.prefix = UNDEF

\* the second snapshot equals the first and process.env is as it was
SameAgain ==
    /\ probe.outEnv = probe.env
    /\ probe.pc = "reread" => SnapshotAgain = Snapshot

-----------------------------------------------------------------------------
(* Properties of mergeConfig *)

\* the call has merged its options
Merged == call.pc # "idle"

\* C24: the snapshot mergeConfig(options) returns holds the option's value
\* in every field the options supply and the value getConfigFromEnv derives
\* from the environment in every other field
C24_OptionsReplaceFields ==
    Merged =>
        \A f \in DOMAIN defaultConfig :
            call.config[f] = IF f \in call.options.fields
                             THEN call.options.values[f]
                             ELSE getConfigFromEnv(store["host"])[f]

\* a call whose options give the empty prefix and nothing else, in a host
\* whose variables give the prefix P_ and overrideExisting true
C24_Witness ==
    /\ Merged
    /\ call.options.fields = {"prefix"}
    /\ call.options.values.prefix = ""
    /\ Get(store["host"], PREFIX_VAR) = "P_"
    /\ Get(store["host"], OVERRIDE_VAR) = "true"
    /\ call.config.prefix = ""
    /\ call.config.overrideExisting = TRUE

-----------------------------------------------------------------------------
(* Properties of the Supervisor's wait *)

\* the Supervisor has called spawnSync in this invocation
Launched == sup.wait # 0

\* the wait ends
WaitEnds == sup.pc = "AwaitingChild" /\ sup'.pc # "AwaitingChild"

\* the Supervisor stays in its wait until the child has exited or the wait
\* has timed out
BlocksForChild ==
    [][WaitEnds => child.state = "exited" \/ sup'.result.error = "ETIMEDOUT"]_vars

\* C25 as stated: the Supervisor blocks until the child exits or the
\* timeout elapses, and when GOOGLE_SECRETS_TIMEOUT is absent the wait bound
\* given to spawnSync is 30000 ms
C25_AbsentTimeoutWaits30000 ==
    /\ [](Launched /\ ~Has(sup.entryEnv, TIMEOUT_VAR) => sup.wait = SpawnDefaultTimeout)
    /\ BlocksForChild

\* C25: the Supervisor blocks until the child exits or the timeout elapses;
\* when GOOGLE_SECRETS_TIMEOUT is absent the wait bound given to spawnSync
\* is the 5000 ms of the default configuration, and it is 30000 ms when the
\* variable gives 0
C25_WaitBound ==
    /\ [](Launched =>
            /\ ~Has(sup.entryEnv, TIMEOUT_VAR) => sup.wait = DefaultTimeout
            /\ Get(sup.entryEnv, TIMEOUT_VAR) = "0" => sup.wait = SpawnDefaultTimeout)
    /\ [](sup.pc = "AwaitingChild" => Launched)
    /\ BlocksForChild

\* a host with the variable at 0 waits with the bound 30000 ms
WaitsWithFallback ==
    /\ sup.pc = "AwaitingChild"
    /\ Get(sup.entryEnv, TIMEOUT_VAR) = "0"
    /\ sup.wait = SpawnDefaultTimeout

\* a wait of 5000 ms in a host without the variable has timed out
C25_Witness ==
    /\ sup.pc = "Done"
    /\ sup.result.error = "ETIMEDOUT"
    /\ ~Has(sup.entryEnv, TIMEOUT_VAR)
    /\ sup.wait = DefaultTimeout

-----------------------------------------------------------------------------
(* Properties of the discovery file *)

\* the chain of the probe comes to a discovered file that is of no use
BadDiscovery ==
    /\ ProbeResolved
    /\ NoList(probe.run)
    /\ ~FilePath(probe.run)
    /\ probe.run.config.autoDiscoverConfig
    /\ probe.found # NoFile
    /\ Unusable(probe.found)

\* the bad discovered file does not fail the load: the listing is asked, and
\* the load is rejected only where the listing is
FallsThrough ==
    /\ probe.out.consulted = {"discover", "list"}
    /\ probe.out.pc = "rejected" <=> ~probe.listing.ok
    /\ probe.out.secretKeys = probe.listing.names
    /\ probe.out.config = probe.run.config

\* C26 as stated: for a discovered file that cannot be read, is not JSON or
\* is JSON of another shape than the two accepted ones, parseConfigFile
\* returns the result with every field absent, and the chain falls through
\* to the listing instead of failing the load
C26_BadFileGivesNothing ==
    BadDiscovery =>
        /\ parseConfigFile(probe.found) = NoFileData
        /\ FallsThrough

\* C26: for a discovered file that cannot be read, is not JSON or is JSON
\* of another shape than the two accepted ones, parseConfigFile returns a
\* result without names, with every field absent unless the file is an
\* object, and the chain falls through to the listing instead of failing
\* the load
C26_BadFileGivesNoNames ==
    BadDiscovery =>
        /\ parseConfigFile(probe.found).secrets = NoKeys
        /\ (probe.found.state # "json" \/ probe.found.value.type # "object") =>
               parseConfigFile(probe.found) = NoFileData
        /\ FallsThrough

\* a discovered file that is not JSON, and the names of the listing are
\* the names of the load
C26_Witness ==
    /\ BadDiscovery
    /\ probe.found = BadJson
    /\ probe.listing = Listing(TRUE, <<"A", "B">>)
    /\ probe.out.pc = "fetching"
    /\ probe.out.secretKeys = <<"A", "B">>

-----------------------------------------------------------------------------
(* Properties of the environment store as a whole *)

\* the process is there before and after the step: the host, or the child
\* where the step neither ends it nor launches another in its place
Persists(p) ==
    \/ p = "host"
    \/ child.state # "none" /\ child'.state # "none" /\ sup'.launches = sup.launches

\* a configuration at work in the process says overrideExisting
Overrides(p) ==
    \/ p = "host" /\ sup.config.overrideExisting
    \/ \E r \in Runs : ProcOf(r) = p /\ run[r].config.overrideExisting

\* the step keeps every key of the store of p, and changes the value of a
\* key only under overrideExisting, or of the project id or the guard
KeepsKeys(p) ==
    \A k \in DOMAIN store[p] :
        /\ Has(store'[p], k)
        /\ store'[p][k] # store[p][k] => k \in {PROJECT_KEY, GUARD_KEY} \/ Overrides(p)

\* C27: no step of the Supervisor or of a load removes a key from the
\* environment store of its process, and the value of a key that was set
\* changes only where overrideExisting holds or the key is the project id
\* or the guard
C27_NoKeyRemoved == [][\A p \in Procs : Persists(p) => KeepsKeys(p)]_vars

\* a merge has gone through in a host that had the payload's key A set: the
\* key has its old value, every key of the entry is there, the guard is set
C27_Witness ==
    /\ Returned
    /\ sup.outcome = "Success"
    /\ "A" \in PayloadKeys
    /\ Get(sup.entryEnv, "A") = "old"
    /\ Get(store["host"], "A") = "old"
    /\ DOMAIN sup.entryEnv \subseteq DOMAIN store["host"]
    /\ Has(store["host"], GUARD_KEY)
    /\ Has(store["host"], PROJECT_KEY)

-----------------------------------------------------------------------------
(* Properties of the split of the child's output *)

\* the text after the first marker of the output
RECURSIVE AfterFirstMarker(_)
AfterFirstMarker(toks) ==
    IF toks = <<>> THEN <<>>
    ELSE IF Head(toks) = MARKER THEN Tail(toks)
    ELSE AfterFirstMarker(Tail(toks))

\* that text as JSON.parse reads it when it is left whole: a string with the
\* text of the marker in it is one string
RECURSIVE LeftWhole(_)
LeftWhole(toks) ==
    IF toks = <<>> THEN <<>>
    ELSE IF Len(toks) >= 3 /\ SubSeq(toks, 1, 3) = <<PARTIAL, MARKER, PARTIAL>>
    THEN <<Str("marked")>> \o LeftWhole(SubSeq(toks, 4, Len(toks)))
    ELSE <<Head(toks)>> \o LeftWhole(Tail(toks))

PayloadAfterFirst == JSONParse(Trim(LeftWhole(AfterFirstMarker(sup.result.stdout))))

\* the child exited with 0 and its output holds the marker more than once
MarkerTwice ==
    /\ Returned
    /\ sup.result.error = "none"
    /\ sup.result.status = "0"
    /\ Len(Split(sup.result.stdout)) > 2

\* C28: when the marker occurs again in the output of a child that exited
\* with 0 and the text after its first occurrence is a JSON object, that
\* object is the payload of the Supervisor and is merged
C28_PayloadAfterFirstMarker ==
    (MarkerTwice /\ PayloadAfterFirst.ok /\ PayloadAfterFirst.val.type = "object") =>
        /\ sup.outcome = "Success"
        /\ sup.secrets = PayloadAfterFirst.val.items

-----------------------------------------------------------------------------
(* Properties of the concurrent requests *)

\* the run has a request out for every one of its names, settled or not
AllIssued(rn) == Len(rn.slot) = Len(rn.secretKeys)

\* no request of the run is in flight
NoneInFlight(rn) == \A i \in 1..Len(rn.slot) : rn.slot[i] \in {"ok", "failed"}

\* the run has returned before the step and the step is not a new call
StaysReturned(r) == run[r].pc = "returned" /\ run'[r].pc = "returned"

\* C29: a load has a request out for every resolved name as soon as it
\* fetches, it returns only when every request has resolved or failed, and
\* after its return neither its mapping nor the environment store of its
\* process is written
C29_ReturnsWhenAllSettled ==
    /\ [](\A r \in Runs :
            /\ run[r].pc = "fetching" => AllIssued(run[r])
            /\ run[r].pc = "returned" => AllIssued(run[r]) /\ NoneInFlight(run[r]))
    /\ [][\A r \in Runs :
            StaysReturned(r) =>
                /\ run'[r].loaded = run[r].loaded
                /\ run'[r].slot = run[r].slot
                /\ store'[ProcOf(r)] = store[ProcOf(r)]]_vars

\* a load of two names has returned, the request of the first having
\* failed and that of the second resolved
C29_Witness ==
    \E r \in Runs :
        /\ run[r].pc = "returned"
        /\ run[r].secretKeys = <<"A", "B">>
        /\ run[r].slot = <<"failed", "ok">>
        /\ ObjKeys(run[r].loaded) = {PROJECT_KEY, "B"}

\* the second request of a load has resolved while the first is in flight
SettlesOutOfOrder == \E r \in Runs : run[r].slot = <<"pending", "ok">>

\* the names of the run are pairwise distinct, and so are the keys its
\* requests write
DistinctNames(rn) ==
    \A i, j \in 1..Len(rn.secretKeys) :
        i # j => /\ rn.secretKeys[i] # rn.secretKeys[j]
                 /\ EnvVarName(rn.config, rn.secretKeys[i])
                        # EnvVarName(rn.config, rn.secretKeys[j])

\* C30: the resolved names of a load never hold the same name twice, so
\* the requests of one load write pairwise distinct keys
C30_NamesAreUnique == \A r \in Runs : DistinctNames(run[r])

-----------------------------------------------------------------------------
(* The discovery walk *)

Walked == probe.pc = "done"

\* the directories of the chain, from the start directory upward, that
\* hold the discovery file
FilesAbove == {d \in 0..probe.startDir : probe.chain[d] = "file"}

\* those of them within maxLevels directories of the start directory
FilesNear == {d \in FilesAbove : probe.startDir - d < MaxLevels}

WalkBounded ==
    /\ Cardinality(probe.examined) <= MaxLevels
    /\ probe.levels <= MaxLevels
    /\ probe.currentDir \in 0..probe.startDir
    /\ probe.examined \subseteq probe.currentDir..probe.startDir

NearestReturned ==
    Walked =>
        IF probe.result.found
        THEN /\ probe.result.at \in FilesNear
             /\ \A d \in FilesAbove : d <= probe.result.at
        ELSE FilesNear = {}

\* C31: findConfigFile ends for every start directory; it examines at most
\* ten directories, the start directory and its ancestors, never goes past
\* the root, and of several directories holding the discovery file it
\* returns the one closest to the start directory
C31_WalkEndsAtNearest ==
    /\ [](WalkBounded /\ NearestReturned)
    /\ <>Walked

\* two directories at or above the start directory hold the file, and the
\* walk has returned one
C31_Witness ==
    /\ Walked
    /\ probe.result.found
    /\ Cardinality(FilesAbove) = 2

\* the walk gave up after maxLevels directories, below the root
GaveUp == Walked /\ ~probe.result.found /\ probe.levels = MaxLevels /\ probe.currentDir > 0

\* the walk stopped at the root
StoppedAtRoot == Walked /\ ~probe.result.found /\ 0 \in probe.examined

-----------------------------------------------------------------------------
(* Properties of one programmatic call as a whole *)

\* the loads of the call that have asked the remote store for name i of
\* their list
Requested(i) == {r \in HostRuns : i \in DOMAIN run[r].slot}

\* C32: one call of the programmatic loadSecrets runs the resolve-and-fetch
\* sequence once, so that no name is requested by two loads of the call,
\* and with a timeout the mapping the caller is given is the one of the
\* load inside withTimeout
C32_LoadsOncePerCall ==
    /\ Cardinality(HostRuns) <= 1
    /\ \A i \in 1..MaxKeys : Cardinality(Requested(i)) <= 1
    /\ (Resolved /\ call.config.timeout # 0) => call.result = run["timed"].loaded

\* a call with a timeout has returned the mapping of its second load, which
\* differs from that of the load inside withTimeout
ReturnsSecondLoad ==
    /\ Resolved
    /\ run["timed"].pc = "returned"
    /\ call.result = run["plain"].loaded
    /\ call.result # run["timed"].loaded

\* the call is made with a timeout and has not settled
Awaited == call.pc \in {"timed", "plain"} /\ call.config.timeout # 0

\* the call has given its caller a mapping or an error
Settled == call.pc \in {"returned", "failed"}

\* C33: a call of the programmatic loadSecrets with a non-zero timeout
\* settles in the end, with a mapping or with an error, whichever requests
\* of the remote store are never answered
C33_CallSettles == Awaited ~> Settled

\* the call waits for its second load, for which no timer is set, after the
\* time of the timeout has passed, one request being still unanswered
WaitsUntimed ==
    /\ call.pc = "plain"
    /\ Overran
    /\ call.timer = "cleared"
    /\ \E i \in DOMAIN run["plain"].slot : run["plain"].slot[i] = "pending"

\* the call has failed with the error of the timer
TimedOut == call.pc = "failed" /\ call.error = TimeoutMessage

\* C34: once the programmatic loadSecrets has failed with the timeout
\* error, the load it abandoned writes the environment store no more: the
\* store the caller finds at the failure is the store it keeps
C34_AbandonedLoadWritesNothing ==
    [][TimedOut => store'["host"] = store["host"]]_vars

-----------------------------------------------------------------------------
(* Properties of the returned mapping *)

\* the load of the probe has returned its mapping
LoadReturned == probe.pc = "resolved" /\ probe.out.pc = "returned"

\* the keys the answered requests of the load are stored under
FinalKeys == StoredKeys(probe.out)

\* C35: in the mapping a successful load returns, the entry GOOGLE_PROJECT_ID
\* holds the resolved project id, for every name list and prefix, also when
\* the key of a secret is GOOGLE_PROJECT_ID itself
C35_ProjectEntryIsProjectId ==
    LoadReturned =>
        /\ ObjHas(probe.out.loaded, PROJECT_KEY)
        /\ ObjGet(probe.out.loaded, PROJECT_KEY) = probe.out.projectId

\* a returned load one of whose secrets has the key GOOGLE_PROJECT_ID
MeetsProjectKey == LoadReturned /\ PROJECT_KEY \in FinalKeys

-----------------------------------------------------------------------------
(* The preload path against the programmatic path *)

\* the store the callbacks of the names from i on leave, every request
\* being answered
RECURSIVE StoreAll(_, _, _)
StoreAll(rn, env, i) ==
    IF i > Len(rn.secretKeys) THEN env
    ELSE StoreAll(rn, StoreSecret(rn, env, i).env, i + 1)

\* the store a SecretManager.loadSecrets in the host itself leaves, as the
\* programmatic path runs it: from the store the Supervisor was entered
\* with, with the names and the settings the same sources resolve to and
\* every request answered
ProgrammaticStore ==
    StoreAll(run["child"], SetKey(sup.entryEnv, PROJECT_KEY, run["child"].projectId), 1)

\* the step in which spawnSync returns what the child wrote, all of it, and
\* the Supervisor reaches Success, on a load all of whose requests were
\* answered
PreloadedAll ==
    /\ sup.pc = "AwaitingChild"
    /\ sup'.pc = "Done"
    /\ sup'.outcome = "Success"
    /\ sup'.result.stdout = child.stdout
    /\ run["child"].pc = "returned"
    /\ \A i \in DOMAIN run["child"].slot : run["child"].slot[i] = "ok"

\* C36: from the same store, the same files and the same remote contents,
\* with every request answered, the preload path leaves every key of a
\* secret with the value the programmatic path leaves it with, also when
\* overrideExisting or the prefix comes from the file alone
C36_PreloadAsProgrammatic ==
    [][PreloadedAll =>
        \A k \in StoredKeys(run["child"]) :
            Get(store'["host"], k) = Get(ProgrammaticStore, k)]_vars

\* the preload path never keeps the old value of a key where the file's
\* overrideExisting made the load in the child replace it
FileOverrideMerged ==
    [][(PreloadedAll /\ run["child"].config.overrideExisting
                     /\ ~sup.config.overrideExisting) =>
        \A k \in StoredKeys(run["child"]) : Get(store'["host"], k) # "old"]_vars

-----------------------------------------------------------------------------
(* The guard flag and the merge *)

GuardSet(env) == Has(env, GUARD_KEY)

\* the step in which spawnSync returns and loadSecretsSync comes to Success
ReachesSuccess ==
    /\ sup.pc = "AwaitingChild"
    /\ sup'.pc = "Done"
    /\ sup'.outcome = "Success"

\* every pair of the payload that the precedence rule lets through is in
\* the store
MergeApplied ==
    \A k \in PayloadKeys :
        (PayloadValue(k).type = "string" /\ Allowed(k)) =>
            Get(store["host"], k) = PayloadValue(k).s

\* C37: the Supervisor sets the guard flag if and only if it reaches
\* Success, and in no state is the guard set while a pair of the payload
\* that passes the precedence rule is unwritten
C37_GuardOnlyAfterMerge ==
    /\ []((Returned /\ sup.outcome = "Success") => GuardSet(store["host"]) /\ MergeApplied)
    /\ []((GuardSet(store["host"]) /\ sup.pc = "Done")
              => sup.outcome \in {"Success", "Skipped"} /\ MergeApplied)
    /\ [][(~GuardSet(store["host"]) /\ GuardSet(store'["host"])) <=> ReachesSuccess]_vars

\* a Success that has replaced the preset value of a key and set the guard
C37_Witness ==
    /\ Returned
    /\ sup.outcome = "Success"
    /\ GuardSet(store["host"])
    /\ sup.config.overrideExisting
    /\ \E k \in PayloadKeys :
         /\ Has(sup.entryEnv, k)
         /\ PayloadValue(k).type = "string"
         /\ store["host"][k] = PayloadValue(k).s
         /\ store["host"][k] # sup.entryEnv[k]

-----------------------------------------------------------------------------
(* A load that fails *)

\* SecretManager.loadSecrets of the child has thrown
LoadFailed == child.state # "none" /\ run["child"].pc = "rejected"

\* the step in which a load throws
Throws(r) == run[r].pc # "rejected" /\ run'[r].pc = "rejected"

\* C38: when SecretManager.loadSecrets fails, for want of a project id, for
\* a secret-name file that cannot be used or for a listing that fails, the
\* environment store is as it was before the call, and GOOGLE_PROJECT_ID in
\* particular is not written
C38_FailedLoadWritesNothing ==
    /\ [](LoadFailed =>
            /\ store["child"] = sup.entryEnv
            /\ Get(store["child"], PROJECT_KEY) = Get(sup.entryEnv, PROJECT_KEY))
    /\ [][\A r \in Runs : Throws(r) => store' = store]_vars

\* the load has failed on the listing, with its project id known and not
\* in the store
C38_Witness ==
    /\ LoadFailed
    /\ run["child"].projectId # UNDEF
    /\ "list" \in run["child"].consulted
    /\ ~Has(store["child"], PROJECT_KEY)

\* the load has failed for want of a project id
FailedOnProject == LoadFailed /\ run["child"].projectId = UNDEF

\* the load has failed on the file GOOGLE_SECRETS_KEYS_FILE names
FailedOnFile == LoadFailed /\ "file" \in run["child"].consulted

-----------------------------------------------------------------------------
(* The returned mapping against the store *)

\* C39: after a successful SecretManager.loadSecrets every key of the
\* returned mapping is set in the environment store, and under
\* overrideExisting the store holds the mapping's value for each of them
C39_MappingIsInStore ==
    LoadReturned =>
        \A k \in ObjKeys(probe.out.loaded) :
            /\ Has(probe.outEnv, k)
            /\ probe.out.config.overrideExisting =>
                   probe.outEnv[k] = ObjGet(probe.out.loaded, k)

\* under overrideExisting the load has replaced the value a key had before
\* it, and the store and the mapping hold the new one
C39_Witness ==
    /\ LoadReturned
    /\ probe.out.config.overrideExisting
    /\ \E k \in FinalKeys :
         /\ Has(probe.env, k)
         /\ probe.outEnv[k] = ObjGet(probe.out.loaded, k)
         /\ probe.outEnv[k] # probe.env[k]

\* without overrideExisting the store keeps a value that differs from the
\* mapping's
StoreKeepsOwn ==
    /\ LoadReturned
    /\ ~probe.out.config.overrideExisting
    /\ \E k \in ObjKeys(probe.out.loaded) : probe.outEnv[k] # ObjGet(probe.out.loaded, k)
=============================================================================
